---------------------------- MODULE Spec2Model ----------------------------
(***************************************************************************)
(* TokenTrust: verification aggregator (VerificationService), risk scoring *)
(* engine (TokenTrustAnalyzer.calculateDynamicRiskScore) and the           *)
(* analyzeToken pipeline with its fail-safe path.                          *)
(*                                                                         *)
(* Conventions of the translation                                          *)
(*  - a nullable / optional value is a sequence of length 0 (null,         *)
(*    undefined) or 1 (the value): Null, Some(x), IsSome(o), Val(o);       *)
(*  - a token name is a sequence of one-character strings, so that         *)
(*    toLowerCase() and includes() are computed and not assumed; every     *)
(*    other string whose only use is its truthiness is a TLA+ string,      *)
(*    "" standing for both the empty string and undefined;                 *)
(*  - the risk score is accumulated in tenths of a point (every weight and *)
(*    every multiplier of the source is a multiple of 0.1), Math.round is  *)
(*    round-half-up on the exact decimal value;                            *)
(*  - the clock of the process (Date.now()) is counted in minutes.         *)
(***************************************************************************)
EXTENDS Integers, Sequences, FiniteSets, TLC

VARIABLES
    aggTokenAddress,    \* aggregateVerificationResults: tokenAddress argument
    aggChecks,          \* aggregateVerificationResults: checks argument
    aggMetadata,        \* aggregateVerificationResults: metadata argument (optional)
    aggResult,          \* the VerificationResult returned (Null before the call)
    pc,                 \* analyzeToken: the step the call is at
    analysis,           \* analyzeToken: the TokenAnalysis record
    verificationResult, \* analyzeToken: verifyToken's result (optional)
    dexData,            \* analyzeToken: analyzeDEXData's result (optional)
    socialMediaData,    \* analyzeToken: analyzeTokenSocialMedia's result (optional)
    thrownAt,           \* analyzeToken: the step whose exception was caught ("" if none)
    cache,              \* VerificationService.cache: address -> optional entry
    now,                \* Date.now(), in minutes
    evidence,           \* what the external registries report, per address
    lastCall,           \* the last verifyToken call and what it returned (optional)
    connections,        \* ConnectionMonitor.connections: socket id -> optional info
    socketState,        \* each socket of the server: unused, pending, open, closed
    rooms               \* the analysis rooms each socket is joined to

aggVars == <<aggTokenAddress, aggChecks, aggMetadata, aggResult>>
analyzerVars == <<pc, analysis, verificationResult, dexData, socialMediaData, thrownAt>>
serviceVars == <<cache, now, evidence, lastCall>>
monitorVars == <<connections, socketState, rooms>>
vars == <<aggVars, analyzerVars, serviceVars, monitorVars>>

----------------------------------------------------------------------------
(* Optional values *)

Null == <<>>
Some(x) == <<x>>
IsSome(o) == Len(o) > 0
Val(o) == o[1]

(* Math.round(num / den) for num >= 0, den > 0: round half up. *)
MathRound(num, den) == (2 * num + den) \div (2 * den)

(* Mutant of Max: the lower operand is not enforced. *)
MaxSecondOperand(a, b) == b

(* Math.max of two numbers *)
Max(a, b) == IF a >= b THEN a ELSE b

RECURSIVE SeqSum(_)
SeqSum(s) == IF s = <<>> THEN 0 ELSE Head(s) + SeqSum(Tail(s))

----------------------------------------------------------------------------
(* Token addresses *)

WSOL == "So11111111111111111111111111111111111111112"
USDC == "EPjFWdd5AufqSSqeM2qN1xzybapC8G4wEGGkZwyTDt1v"
JUP == "JUPyiwrYJFskUPiHa7hkeR8VUtAeFoSYbKedZNsDvCN"
NEWMINT == "NewMint1111111111111111111111111111111111111"

TokenAddresses == {WSOL, USDC, JUP, NEWMINT}

criticalTokens ==
    [So11111111111111111111111111111111111111112 |-> "Native SOL wrapper",
     EPjFWdd5AufqSSqeM2qN1xzybapC8G4wEGGkZwyTDt1v |-> "Circle USDC",
     Es9vMFrzaCERmJfrF4H2FYD4KCoNkY11McCe8BenwNYB |-> "Tether USDT"]

knownGovernanceTokens ==
    [JUPyiwrYJFskUPiHa7hkeR8VUtAeFoSYbKedZNsDvCN |-> "Jupiter DAO",
     ORCAX7vD6bGYMGYF2LBuqRw4FNjWs4u5H6VqqqsJ7vc |-> "Orca DAO",
     RLBxxFkseAZ4RgJH3Sqn8jXxhmGoz9jWxDNJMh8pL7a |-> "Rollbit Coin"]

----------------------------------------------------------------------------
(* TokenMetadata: name is a character sequence, the other strings are kept *)
(* for their truthiness; decimals = -1 stands for undefined.               *)

NameUSDC == <<"U", "S", "D", " ", "C", "o", "i", "n">>
NameUnknown == <<"U", "n", "k", "n", "o", "w", "n">>
NameSafeMoon == <<"S", "a", "f", "e", "M", "o", "o", "n">>
NameEmpty == <<>>

MdComplete ==
    [name |-> NameUSDC, symbol |-> "USDC", image |-> "https://img/usdc.png",
     externalUrl |-> "https://circle.com", description |-> "Stablecoin",
     mutable |-> FALSE, decimals |-> 6]

MdFallback ==
    [name |-> NameUnknown, symbol |-> "Unknown", image |-> "",
     externalUrl |-> "", description |-> "", mutable |-> FALSE, decimals |-> 0]

MdScamName ==
    [name |-> NameSafeMoon, symbol |-> "SAFEMOON", image |-> "https://img/sm.png",
     externalUrl |-> "", description |-> "To the moon",
     mutable |-> TRUE, decimals |-> 9]

MdNameless ==
    [name |-> NameEmpty, symbol |-> "", image |-> "https://img/x.png",
     externalUrl |-> "", description |-> "", mutable |-> TRUE, decimals |-> -1]

MetadataValues == {MdComplete, MdFallback, MdScamName, MdNameless}
OptMetadata == {Null} \cup {Some(m) : m \in MetadataValues}

----------------------------------------------------------------------------
(* Evidence checks: the PromiseSettledResult entries handed to the         *)
(* aggregator.  details.trustScore = 0 and details.marketCapRank = 0 stand *)
(* for an undefined field (undefined > 80 and a falsy rank behave as 0).   *)

NoDetails == Null
Details(v, t, r) == Some([verified |-> v, trustScore |-> t, marketCapRank |-> r])

CheckValue(v, w, s, d) == [verified |-> v, weight |-> w, source |-> s, details |-> d]

Rejected == [status |-> "rejected", value |-> Null]
FulfilledEmpty == [status |-> "fulfilled", value |-> Null]
Fulfilled(v) == [status |-> "fulfilled", value |-> Some(v)]

(* checkCoinGeckoListing: listing is the optional response.data (with id) *)
checkCoinGeckoListing(listing) ==
    IF IsSome(listing)
    THEN CheckValue(TRUE, 40, "CoinGecko",
                    Details(FALSE, Val(listing).trustScore, Val(listing).marketCapRank))
    ELSE CheckValue(FALSE, 0, "CoinGecko", NoDetails)

(* checkJupiterListing: listing is the optional entry of the Jupiter list *)
checkJupiterListing(listing) ==
    IF IsSome(listing)
    THEN CheckValue(TRUE, 30, "Jupiter", Details(Val(listing).verified, 0, 0))
    ELSE CheckValue(FALSE, 0, "Jupiter", NoDetails)

(* checkSolanaTokenRegistry: listed says whether the registry has the token *)
checkSolanaTokenRegistry(listed) ==
    IF listed
    THEN CheckValue(TRUE, 25, "Solana Token Registry", Details(FALSE, 0, 0))
    ELSE CheckValue(FALSE, 0, "Solana Token Registry", NoDetails)

(* checkOnChainVerification: five signals from the supplied metadata *)
verificationSignals(md) ==
    <<md.name # <<>> /\ md.symbol # "" /\ md.image # "",
      md.externalUrl # "",
      md.description # "",
      ~md.mutable,
      md.decimals # -1 /\ md.decimals <= 18>>

signalCount(md) ==
    Cardinality({i \in 1..Len(verificationSignals(md)) : verificationSignals(md)[i]})

checkOnChainVerification(metadata) ==
    IF IsSome(metadata)
       /\ signalCount(Val(metadata)) * 100 >= 80 * Len(verificationSignals(Val(metadata)))
    THEN CheckValue(TRUE, 15, "On-chain Metadata", Details(FALSE, 0, 0))
    ELSE CheckValue(FALSE, 0, "On-chain Metadata", NoDetails)

(* checkLiquidityPresence: totalLiquidity is the summed pair liquidity in USD *)
checkLiquidityPresence(totalLiquidity) ==
    IF totalLiquidity > 50000
    THEN CheckValue(TRUE, 20, "DEX Liquidity", Details(FALSE, 0, 0))
    ELSE CheckValue(FALSE, 0, "DEX Liquidity", NoDetails)

checkGovernanceTokens(tokenAddress) ==
    IF tokenAddress \in DOMAIN knownGovernanceTokens
    THEN CheckValue(TRUE, 35, "Governance Token", Details(FALSE, 0, 0))
    ELSE CheckValue(FALSE, 0, "Governance Token", NoDetails)

----------------------------------------------------------------------------
(* aggregateVerificationResults *)

EmptyTally == [totalWeight |-> 0, verifiedWeight |-> 0, reasons |-> <<>>, sources |-> <<>>]

(* The qualitative boosts read from result.details (lines 343-354). *)
DetailReasons(details) ==
    IF ~IsSome(details) THEN <<>>
    ELSE (IF Val(details).verified THEN <<"Strictly verified listing">> ELSE <<>>)
         \o (IF Val(details).trustScore > 80 THEN <<"High trust score">> ELSE <<>>)
         \o (IF Val(details).marketCapRank # 0 /\ Val(details).marketCapRank < 100
             THEN <<"Top 100 market cap">> ELSE <<>>)

(* Mutants of TallyCheck.  Assign: the weights are assigned, not added.     *)
(* Penalise: a check that did not participate is charged a nominal weight  *)
(* in the denominator.  VerifiedOnly: a matched check forgets totalWeight. *)
TallyCheckAssign(acc, check) ==
    IF check.status = "fulfilled" /\ IsSome(check.value)
    THEN LET result == Val(check.value) IN
         IF result.verified
         THEN [totalWeight |-> result.weight,
               verifiedWeight |-> result.weight,
               reasons |-> (acc.reasons \o <<"Verified on " \o result.source>>)
                           \o DetailReasons(result.details),
               sources |-> Append(acc.sources, result.source)]
         ELSE [acc EXCEPT !.totalWeight = result.weight]
    ELSE acc

TallyCheckPenalise(acc, check) ==
    IF check.status = "fulfilled" /\ IsSome(check.value)
    THEN LET result == Val(check.value) IN
         IF result.verified
         THEN [totalWeight |-> acc.totalWeight + result.weight,
               verifiedWeight |-> acc.verifiedWeight + result.weight,
               reasons |-> (acc.reasons \o <<"Verified on " \o result.source>>)
                           \o DetailReasons(result.details),
               sources |-> Append(acc.sources, result.source)]
         ELSE [acc EXCEPT !.totalWeight = acc.totalWeight + result.weight]
    ELSE [acc EXCEPT !.totalWeight = acc.totalWeight + 25]

TallyCheckVerifiedOnly(acc, check) ==
    IF check.status = "fulfilled" /\ IsSome(check.value)
    THEN LET result == Val(check.value) IN
         IF result.verified
         THEN [totalWeight |-> acc.totalWeight,
               verifiedWeight |-> acc.verifiedWeight + result.weight,
               reasons |-> (acc.reasons \o <<"Verified on " \o result.source>>)
                           \o DetailReasons(result.details),
               sources |-> Append(acc.sources, result.source)]
         ELSE [acc EXCEPT !.totalWeight = acc.totalWeight + result.weight]
    ELSE acc

(* One iteration of checks.forEach (lines 333-357). *)
TallyCheck(acc, check) ==
    IF check.status = "fulfilled" /\ IsSome(check.value)
    THEN LET result == Val(check.value) IN
         IF result.verified
         THEN [totalWeight |-> acc.totalWeight + result.weight,
               verifiedWeight |-> acc.verifiedWeight + result.weight,
               reasons |-> (acc.reasons \o <<"Verified on " \o result.source>>)
                           \o DetailReasons(result.details),
               sources |-> Append(acc.sources, result.source)]
         ELSE [acc EXCEPT !.totalWeight = acc.totalWeight + result.weight]
    ELSE acc

RECURSIVE TallyChecks(_, _)
TallyChecks(acc, checks) ==
    IF checks = <<>> THEN acc
    ELSE TallyChecks(TallyCheck(acc, Head(checks)), Tail(checks))

(* Mutant of Confidence: the matched weight is taken against a nominal     *)
(* full weight of 100 when less than that has been counted.                *)
ConfidenceOfNominal(verifiedWeight, totalWeight) ==
    IF totalWeight > 0
    THEN MathRound(100 * verifiedWeight, IF totalWeight > 100 THEN totalWeight ELSE 100)
    ELSE 0

(* confidence (lines 359-360) *)
Confidence(verifiedWeight, totalWeight) ==
    IF totalWeight > 0 THEN MathRound(100 * verifiedWeight, totalWeight) ELSE 0

(* Mutant of VerificationLevel: the level is decided on confidence alone. *)
VerificationLevelConfidenceOnly(confidence, verifiedWeight) ==
    IF confidence >= 80 THEN "OFFICIAL"
    ELSE IF confidence >= 60 THEN "ESTABLISHED"
    ELSE IF confidence >= 40 THEN "COMMUNITY"
    ELSE "UNVERIFIED"

(* verificationLevel (lines 362-378) *)
VerificationLevel(confidence, verifiedWeight) ==
    IF confidence >= 80 /\ verifiedWeight >= 60 THEN "OFFICIAL"
    ELSE IF confidence >= 60 /\ verifiedWeight >= 40 THEN "ESTABLISHED"
    ELSE IF confidence >= 40 /\ verifiedWeight >= 20 THEN "COMMUNITY"
    ELSE "UNVERIFIED"

(* the gap descriptions added for an unverified token (lines 380-390) *)
MetadataGaps(metadata, isVerified) ==
    IF IsSome(metadata) /\ ~isVerified
    THEN (IF Val(metadata).name = <<>> \/ Val(metadata).symbol = ""
          THEN <<"Missing basic metadata">> ELSE <<>>)
         \o (IF Val(metadata).image = "" THEN <<"No token image">> ELSE <<>>)
         \o (IF Val(metadata).description = "" THEN <<"No token description">> ELSE <<>>)
    ELSE <<>>

(* Mutant of aggregateVerificationResults: the registry entry is one more *)
(* matched source of weight 100 instead of a short circuit.               *)
aggregateRegistryAsEvidence(tokenAddress, checks, metadata) ==
    LET start == IF tokenAddress \in DOMAIN criticalTokens
                 THEN [totalWeight |-> 100, verifiedWeight |-> 100,
                       reasons |-> <<"Critical infrastructure: "
                                     \o criticalTokens[tokenAddress]>>,
                       sources |-> <<"System Registry">>]
                 ELSE EmptyTally
        tally == TallyChecks(start, checks)
        confidence == Confidence(tally.verifiedWeight, tally.totalWeight)
        verificationLevel == VerificationLevel(confidence, tally.verifiedWeight)
        isVerified == verificationLevel # "UNVERIFIED"
        reasons == tally.reasons \o MetadataGaps(metadata, isVerified)
    IN  [isVerified |-> isVerified,
         verificationLevel |-> verificationLevel,
         confidence |-> confidence,
         reasons |-> IF Len(reasons) > 0 THEN reasons
                     ELSE <<"No verification sources found">>,
         sources |-> tally.sources]

aggregateVerificationResults(tokenAddress, checks, metadata) ==
    IF tokenAddress \in DOMAIN criticalTokens
    THEN [isVerified |-> TRUE,
          verificationLevel |-> "OFFICIAL",
          confidence |-> 100,
          reasons |-> <<"Critical infrastructure: " \o criticalTokens[tokenAddress]>>,
          sources |-> <<"System Registry">>]
    ELSE LET tally == TallyChecks(EmptyTally, checks)
             confidence == Confidence(tally.verifiedWeight, tally.totalWeight)
             verificationLevel == VerificationLevel(confidence, tally.verifiedWeight)
             isVerified == verificationLevel # "UNVERIFIED"
             reasons == tally.reasons \o MetadataGaps(metadata, isVerified)
         IN  [isVerified |-> isVerified,
              verificationLevel |-> verificationLevel,
              confidence |-> confidence,
              reasons |-> IF Len(reasons) > 0 THEN reasons
                          ELSE <<"No verification sources found">>,
              sources |-> tally.sources]

----------------------------------------------------------------------------
(* TokenTrustAnalyzer: the scoring engine.  Parameters an, ver, dex and    *)
(* social are the analysis record, the verification result, the DEX data   *)
(* and the social media data of the source.                                *)
(*  - transactionData.timeSpan.daysActive is kept in tenths of a day;      *)
(*  - dexData.volumeLiquidityAnalysis.ratio is kept in hundredths;         *)
(*  - socialMediaData: a count of 0 stands for an absent metrics object;   *)
(*  - the pictographs that open some message strings are left out.         *)

riskWeights ==
    [MINT_AUTHORITY |-> 30, FREEZE_AUTHORITY |-> 25, TOKEN_AGE |-> 20,
     TRANSACTION_VOLUME |-> 15, CREATOR_BEHAVIOR |-> 15, METADATA_QUALITY |-> 10,
     LIQUIDITY_RISK |-> 25, HOLDER_CONCENTRATION |-> 20]

(* A weight in tenths of a point, and a weight times num/10. *)
Tenths(points) == 10 * points
Times(tenths, num) == (tenths * num) \div 10

Digit(d) == ToString(d)

RECURSIVE Grouped(_)
Grouped(n) ==
    IF n < 1000 THEN ToString(n)
    ELSE Grouped(n \div 1000) \o ","
         \o Digit((n % 1000) \div 100) \o Digit((n % 100) \div 10) \o Digit(n % 10)

(* Number.prototype.toLocaleString() of a non-negative integer (en-US) *)
toLocaleString(n) == Grouped(n)

(* (hundredths / 100).toFixed(2) *)
toFixed2(hundredths) ==
    ToString(hundredths \div 100) \o "."
    \o Digit((hundredths % 100) \div 10) \o Digit(hundredths % 10)

(* Array.prototype.join *)
RECURSIVE join(_, _)
join(strings, separator) ==
    IF strings = <<>> THEN ""
    ELSE IF Len(strings) = 1 THEN strings[1]
    ELSE strings[1] \o separator \o join(Tail(strings), separator)

UpperToLower ==
    [A |-> "a", B |-> "b", C |-> "c", D |-> "d", E |-> "e", F |-> "f", G |-> "g",
     H |-> "h", I |-> "i", J |-> "j", K |-> "k", L |-> "l", M |-> "m", N |-> "n",
     O |-> "o", P |-> "p", Q |-> "q", R |-> "r", S |-> "s", T |-> "t", U |-> "u",
     V |-> "v", W |-> "w", X |-> "x", Y |-> "y", Z |-> "z"]

toLowerCase(s) ==
    [i \in 1..Len(s) |-> IF s[i] \in DOMAIN UpperToLower THEN UpperToLower[s[i]] ELSE s[i]]

includes(s, keyword) ==
    \E i \in 1..(Len(s) - Len(keyword) + 1) : SubSeq(s, i, i + Len(keyword) - 1) = keyword

scamKeywords ==
    { <<"i", "n", "u">>, <<"m", "o", "o", "n">>, <<"s", "a", "f", "e">>,
      <<"e", "l", "o", "n">>, <<"d", "o", "g", "e">>, <<"s", "h", "i", "b">>,
      <<"p", "e", "p", "e">>, <<"w", "o", "j", "a", "k">> }

GoodName(tokenInfo) == tokenInfo.name # <<>> /\ tokenInfo.name # NameUnknown

(* isRecentlyLaunchedLegitimateToken: the eleven signals, each a pair       *)
(* <<counted, positive>> in the order of the source.                        *)
Signals(an, dex, social) ==
    LET tx == an.transactionData
        info == an.tokenInfo
        hasScamIndicators ==
            /\ IsSome(info) /\ Val(info).name # <<>>
            /\ \E keyword \in scamKeywords : includes(toLowerCase(Val(info).name), keyword)
        hasActiveCommunity ==
            /\ IsSome(social)
            /\ \/ Val(social).telegramMembers > 1000
               \/ Val(social).discordMembers > 500
               \/ Val(social).twitterFollowers > 5000
    IN  << <<IsSome(tx), IsSome(tx) /\ Val(tx).daysActive >= 1 /\ Val(tx).daysActive <= 300>>,
           <<IsSome(tx), IsSome(tx) /\ Val(tx).totalTransfers >= 5>>,
           <<IsSome(info), IsSome(info) /\ GoodName(Val(info))>>,
           <<IsSome(dex) /\ Val(dex).liquidity.totalLiquidity # 0,
             IsSome(dex) /\ Val(dex).liquidity.totalLiquidity > 100>>,
           <<TRUE, ~hasScamIndicators>>,
           <<IsSome(an.creatorData),
             IsSome(an.creatorData) /\ Val(an.creatorData).level # "HIGH">>,
           <<IsSome(dex) /\ Val(dex).volume.volume24h # 0,
             IsSome(dex) /\ Val(dex).volume.volume24h > 10>>,
           <<IsSome(dex), IsSome(dex) /\ ~Val(dex).rugPullRisk.detected>>,
           <<IsSome(social),
             IsSome(social) /\ Val(social).overallScore >= 50>>,
           <<IsSome(social) /\ Val(social).twitterVerified,
             IsSome(social) /\ Val(social).twitterVerified>>,
           <<hasActiveCommunity, hasActiveCommunity>> >>

totalSignals(sig) == Cardinality({i \in 1..Len(sig) : sig[i][1]})
positiveSignals(sig) == Cardinality({i \in 1..Len(sig) : sig[i][1] /\ sig[i][2]})

(* Mutant of isRecentlyLaunchedLegitimateToken: the age of the token is    *)
(* not required.                                                           *)
isLegitimateWhateverTheAge(an, ver, dex, social) ==
    LET sig == Signals(an, dex, social)
    IN  /\ totalSignals(sig) >= 4
        /\ positiveSignals(sig) * 100 >= 60 * totalSignals(sig)

isRecentlyLaunchedLegitimateToken(an, ver, dex, social) ==
    LET sig == Signals(an, dex, social)
        isRecent == IsSome(an.transactionData)
                    /\ Val(an.transactionData).daysActive <= 300
        hasEnoughSignals == totalSignals(sig) >= 4
        hasGoodConfidence == totalSignals(sig) > 0
                             /\ positiveSignals(sig) * 100 >= 60 * totalSignals(sig)
    IN  isRecent /\ hasEnoughSignals /\ hasGoodConfidence

(* calculateVerificationWeight *)
calculateVerificationWeight(ver) ==
    LET weights == [OFFICIAL |-> 50, ESTABLISHED |-> 35, COMMUNITY |-> 20, UNVERIFIED |-> 0]
        baseWeight == weights[ver.verificationLevel]
    IN  MathRound(baseWeight * ver.confidence, 100)

(* getRiskOverrideForVerification *)
getRiskOverrideForVerification(level) ==
    CASE level = "OFFICIAL" -> "LOW"
      [] level = "ESTABLISHED" -> "LOW"
      [] level = "COMMUNITY" -> "MEDIUM"
      [] OTHER -> "HIGH"

(* Mutant of generateDynamicRecommendations: the caution note of a         *)
(* verified token is added from a score of 20 on.                          *)
generateRecommendationsNoteFrom20(riskScore, ver, isRecentlyLaunched) ==
    IF ver.isVerified
    THEN << "VERIFIED: " \o ver.verificationLevel \o " verification level",
            "Verified on: " \o join(ver.sources, ", ") >>
         \o (IF riskScore >= Tenths(20)
             THEN <<"Note: Despite verification, some risk factors remain">> ELSE <<>>)
    ELSE IF isRecentlyLaunched
    THEN << "RECENTLY LAUNCHED: Token shows positive signals",
            "Monitor for verification on major platforms",
            "Check for ongoing development and community activity",
            IF riskScore >= Tenths(60)
            THEN "HIGH RISK: Exercise caution despite positive signals"
            ELSE IF riskScore >= Tenths(40)
            THEN "MODERATE RISK: Monitor closely for red flags"
            ELSE "LOW RISK: Promising new token - continue monitoring",
            "Tip: Wait for verification before major investments" >>
    ELSE << IF riskScore >= Tenths(80) THEN "EXTREME RISK: Avoid this token completely"
            ELSE IF riskScore >= Tenths(60) THEN "HIGH RISK: Exercise extreme caution"
            ELSE "UNVERIFIED: Token lacks verification but may be legitimate" >>

(* generateDynamicRecommendations: riskScore is the unrounded total, in tenths *)
generateDynamicRecommendations(riskScore, ver, isRecentlyLaunched) ==
    IF ver.isVerified
    THEN << "VERIFIED: " \o ver.verificationLevel \o " verification level",
            "Verified on: " \o join(ver.sources, ", ") >>
         \o (IF riskScore > Tenths(20)
             THEN <<"Note: Despite verification, some risk factors remain">> ELSE <<>>)
    ELSE IF isRecentlyLaunched
    THEN << "RECENTLY LAUNCHED: Token shows positive signals",
            "Monitor for verification on major platforms",
            "Check for ongoing development and community activity",
            IF riskScore >= Tenths(60)
            THEN "HIGH RISK: Exercise caution despite positive signals"
            ELSE IF riskScore >= Tenths(40)
            THEN "MODERATE RISK: Monitor closely for red flags"
            ELSE "LOW RISK: Promising new token - continue monitoring",
            "Tip: Wait for verification before major investments" >>
    ELSE << IF riskScore >= Tenths(80) THEN "EXTREME RISK: Avoid this token completely"
            ELSE IF riskScore >= Tenths(60) THEN "HIGH RISK: Exercise extreme caution"
            ELSE "UNVERIFIED: Token lacks verification but may be legitimate" >>

(* The running state of calculateDynamicRiskScore: totalScore in tenths. *)
ScoreStart == [totalScore |-> 0, factors |-> <<>>, safetyFactors |-> <<>>]

AddRisk(acc, tenths, factor) ==
    [acc EXCEPT !.totalScore = @ + tenths, !.factors = Append(@, factor)]
AddSafety(acc, factor) == [acc EXCEPT !.safetyFactors = Append(@, factor)]

(* Mutant of Reduced: every unverified token gets the reduction of a       *)
(* recently launched one.                                                  *)
ReducedForEveryUnverified(tenths, ver, isRecentlyLaunched, verified, recent) ==
    IF ver.isVerified THEN Times(tenths, verified) ELSE Times(tenths, recent)

(* The multiplier of a factor: weight * verified/10 for a verified token,  *)
(* weight * recent/10 for a heuristically legitimate one, else the weight. *)
Reduced(tenths, ver, isRecentlyLaunched, verified, recent) ==
    IF ver.isVerified THEN Times(tenths, verified)
    ELSE IF isRecentlyLaunched THEN Times(tenths, recent)
    ELSE tenths

(* Mutant of BaselineStep: the two penalties of an unverified token are    *)
(* exchanged, the flagged token paying the full penalty.                   *)
BaselineStepExchanged(acc, ver, isRecentlyLaunched) ==
    IF ver.isVerified
    THEN LET s1 == Max(0, acc.totalScore - Tenths(calculateVerificationWeight(ver)))
         IN  [acc EXCEPT !.totalScore = s1]
    ELSE IF isRecentlyLaunched
    THEN AddRisk(acc, Max(Tenths(10), Tenths(30) - 2 * ver.confidence),
                 "Token not verified on major platforms (recently launched)")
    ELSE AddRisk(acc, Max(Tenths(5), Tenths(15) - ver.confidence),
                 "Token not verified on major platforms")

(* lines 908-944: verification baseline *)
BaselineStep(acc, ver, isRecentlyLaunched) ==
    IF ver.isVerified
    THEN LET s1 == Max(0, acc.totalScore - Tenths(calculateVerificationWeight(ver)))
             f1 == (acc.safetyFactors
                    \o <<"Dynamically verified: " \o ver.verificationLevel \o " ("
                          \o ToString(ver.confidence) \o "% confidence)">>)
                   \o [i \in 1..Len(ver.sources) |-> "Listed on " \o ver.sources[i]]
         IN  IF ver.verificationLevel = "OFFICIAL"
             THEN [acc EXCEPT !.totalScore = Max(0, s1 - Tenths(40)),
                              !.safetyFactors =
                                  Append(f1, "Official verification - maximum trust level")]
             ELSE [acc EXCEPT !.totalScore = s1, !.safetyFactors = f1]
    ELSE IF isRecentlyLaunched
    THEN AddSafety(AddRisk(acc, Max(Tenths(5), Tenths(15) - ver.confidence),
                           "Token not verified on major platforms (recently launched)"),
                   "Recently launched token - verification pending")
    ELSE AddRisk(acc, Max(Tenths(10), Tenths(30) - 2 * ver.confidence),
                 "Token not verified on major platforms")

(* Mutant of MintAuthorityStep: the test of mintRevoked is inverted. *)
MintAuthorityStepInverted(acc, an, ver, isRecentlyLaunched) ==
    IF IsSome(an.mintInfo) /\ Val(an.mintInfo).mintRevoked
    THEN AddRisk(acc,
                 Reduced(Tenths(riskWeights.MINT_AUTHORITY), ver, isRecentlyLaunched, 2, 5),
                 "Active mint authority - unlimited supply possible")
    ELSE IF IsSome(an.mintInfo)
    THEN AddSafety(acc, "Mint authority revoked - supply is fixed")
    ELSE acc

(* lines 951-974: mint authority *)
MintAuthorityStep(acc, an, ver, isRecentlyLaunched) ==
    IF IsSome(an.mintInfo) /\ ~Val(an.mintInfo).mintRevoked
    THEN AddRisk(acc,
                 Reduced(Tenths(riskWeights.MINT_AUTHORITY), ver, isRecentlyLaunched, 2, 5),
                 IF ver.isVerified THEN "Active mint authority (but token is verified)"
                 ELSE IF isRecentlyLaunched
                 THEN "Active mint authority (recently launched - monitoring)"
                 ELSE "Active mint authority - unlimited supply possible")
    ELSE IF IsSome(an.mintInfo) /\ Val(an.mintInfo).mintRevoked
    THEN AddSafety(acc, "Mint authority revoked - supply is fixed")
    ELSE acc

(* Mutant of FreezeAuthorityStep: the discount grows with the level, an    *)
(* ESTABLISHED token being charged a tenth of the weight instead of a      *)
(* fifth.                                                                  *)
FreezeAuthorityStepByLevel(acc, an, ver, isRecentlyLaunched) ==
    IF IsSome(an.mintInfo) /\ ~Val(an.mintInfo).freezeRevoked
    THEN AddRisk(acc,
                 IF ver.isVerified /\ ver.verificationLevel = "ESTABLISHED"
                 THEN Times(Tenths(riskWeights.FREEZE_AUTHORITY), 1)
                 ELSE Reduced(Tenths(riskWeights.FREEZE_AUTHORITY), ver,
                              isRecentlyLaunched, 2, 5),
                 "Active freeze authority - accounts can be frozen")
    ELSE IF IsSome(an.mintInfo) /\ Val(an.mintInfo).freezeRevoked
    THEN AddSafety(acc, "Freeze authority revoked - accounts protected")
    ELSE acc

(* lines 976-999: freeze authority *)
FreezeAuthorityStep(acc, an, ver, isRecentlyLaunched) ==
    IF IsSome(an.mintInfo) /\ ~Val(an.mintInfo).freezeRevoked
    THEN AddRisk(acc,
                 Reduced(Tenths(riskWeights.FREEZE_AUTHORITY), ver, isRecentlyLaunched, 2, 5),
                 IF ver.isVerified THEN "Active freeze authority (but token is verified)"
                 ELSE IF isRecentlyLaunched
                 THEN "Active freeze authority (recently launched - monitoring)"
                 ELSE "Active freeze authority - accounts can be frozen")
    ELSE IF IsSome(an.mintInfo) /\ Val(an.mintInfo).freezeRevoked
    THEN AddSafety(acc, "Freeze authority revoked - accounts protected")
    ELSE acc

(* Mutant of TokenAgeStep: absent transaction data is scored as a token of *)
(* zero days.                                                              *)
TokenAgeStepAbsentIsNew(acc, an, ver, isRecentlyLaunched) ==
    LET daysActive == IF IsSome(an.transactionData)
                      THEN Val(an.transactionData).daysActive ELSE 0 IN
    IF daysActive < 10
    THEN AddRisk(acc,
                 Reduced(Tenths(riskWeights.TOKEN_AGE), ver, isRecentlyLaunched, 3, 4),
                 IF isRecentlyLaunched
                 THEN "Very new token (recently launched - monitoring)"
                 ELSE "Very new token - high risk")
    ELSE IF daysActive < 70
    THEN AddRisk(acc,
                 Reduced(Times(Tenths(riskWeights.TOKEN_AGE), 7),
                         ver, isRecentlyLaunched, 2, 5),
                 IF isRecentlyLaunched
                 THEN "New token (recently launched - monitoring)"
                 ELSE "New token - moderate risk")
    ELSE IF daysActive > 300
    THEN AddSafety(acc, "Established token - lower risk")
    ELSE acc

(* lines 1001-1039: token age *)
TokenAgeStep(acc, an, ver, isRecentlyLaunched) ==
    IF ~IsSome(an.transactionData) THEN acc
    ELSE LET daysActive == Val(an.transactionData).daysActive IN
         IF daysActive < 10
         THEN AddRisk(acc,
                      Reduced(Tenths(riskWeights.TOKEN_AGE), ver, isRecentlyLaunched, 3, 4),
                      IF isRecentlyLaunched
                      THEN "Very new token (recently launched - monitoring)"
                      ELSE "Very new token - high risk")
         ELSE IF daysActive < 70
         THEN AddRisk(acc,
                      Reduced(Times(Tenths(riskWeights.TOKEN_AGE), 7),
                              ver, isRecentlyLaunched, 2, 5),
                      IF isRecentlyLaunched
                      THEN "New token (recently launched - monitoring)"
                      ELSE "New token - moderate risk")
         ELSE IF daysActive > 300
         THEN AddSafety(acc, "Established token - lower risk")
         ELSE acc

(* lines 1041-1066: transaction volume *)
TransactionVolumeStep(acc, an, ver, isRecentlyLaunched) ==
    IF ~IsSome(an.transactionData) THEN acc
    ELSE LET totalTransfers == Val(an.transactionData).totalTransfers IN
         IF totalTransfers < 10
         THEN AddRisk(acc,
                      Reduced(Tenths(riskWeights.TRANSACTION_VOLUME),
                              ver, isRecentlyLaunched, 3, 4),
                      IF isRecentlyLaunched
                      THEN "Low transaction volume (recently launched - monitoring)"
                      ELSE "Low transaction volume - suspicious")
         ELSE IF totalTransfers > 100
         THEN AddSafety(acc, "High transaction volume - active trading")
         ELSE acc

(* lines 1068-1092: creator behaviour *)
CreatorStep(acc, an, ver, isRecentlyLaunched) ==
    IF ~IsSome(an.creatorData) THEN acc
    ELSE LET riskLevel == Val(an.creatorData).level IN
         IF riskLevel = "HIGH"
         THEN AddRisk(acc,
                      Reduced(Tenths(riskWeights.CREATOR_BEHAVIOR),
                              ver, isRecentlyLaunched, 3, 5),
                      IF isRecentlyLaunched
                      THEN "Suspicious creator behavior (recently launched - monitoring)"
                      ELSE "Suspicious creator behavior detected")
         ELSE IF riskLevel = "LOW"
         THEN AddSafety(acc, "Normal creator behavior patterns")
         ELSE acc

(* lines 1094-1117: metadata quality *)
MetadataStep(acc, an, ver, isRecentlyLaunched) ==
    IF ~IsSome(an.tokenInfo) THEN acc
    ELSE IF ~GoodName(Val(an.tokenInfo))
    THEN AddRisk(acc,
                 Reduced(Tenths(riskWeights.METADATA_QUALITY), ver, isRecentlyLaunched, 2, 5),
                 IF isRecentlyLaunched
                 THEN "Poor metadata quality (recently launched - monitoring)"
                 ELSE "Poor metadata quality")
    ELSE AddSafety(acc, "Good metadata quality")

(* Mutant of ContextSteps: an OFFICIAL token gets the context factors at   *)
(* the reduced rates of a verified one instead of skipping them.           *)
ContextStepsForEveryLevel(acc, an, ver, isRecentlyLaunched) ==
    MetadataStep(
      CreatorStep(
        TransactionVolumeStep(
          TokenAgeStep(
            FreezeAuthorityStep(
              MintAuthorityStep(acc, an, ver, isRecentlyLaunched),
              an, ver, isRecentlyLaunched),
            an, ver, isRecentlyLaunched),
          an, ver, isRecentlyLaunched),
        an, ver, isRecentlyLaunched),
      an, ver, isRecentlyLaunched)

(* lines 946-1118: the factors skipped for an OFFICIAL token *)
ContextSteps(acc, an, ver, isRecentlyLaunched) ==
    IF ~ver.isVerified \/ ver.verificationLevel # "OFFICIAL"
    THEN MetadataStep(
           CreatorStep(
             TransactionVolumeStep(
               TokenAgeStep(
                 FreezeAuthorityStep(
                   MintAuthorityStep(acc, an, ver, isRecentlyLaunched),
                   an, ver, isRecentlyLaunched),
                 an, ver, isRecentlyLaunched),
               an, ver, isRecentlyLaunched),
             an, ver, isRecentlyLaunched),
           an, ver, isRecentlyLaunched)
    ELSE acc

(* lines 1121-1132: rug pull *)
RugPullStep(acc, ver, dex) ==
    IF IsSome(dex) /\ Val(dex).rugPullRisk.detected
    THEN LET risk == IF ver.isVerified THEN Times(Tenths(riskWeights.LIQUIDITY_RISK), 3)
                     ELSE Tenths(riskWeights.LIQUIDITY_RISK)
             indicators == Val(dex).rugPullRisk.indicators
             acc1 == AddRisk(acc, risk,
                             "Rug pull risk detected ("
                             \o ToString(Val(dex).rugPullRisk.confidence)
                             \o "% confidence)")
         IN  [acc1 EXCEPT !.factors =
                  @ \o [i \in 1..Len(indicators) |-> "DEX: " \o indicators[i]]]
    ELSE acc

(* lines 1134-1146: low liquidity *)
LiquidityStep(acc, ver, dex) ==
    IF IsSome(dex) /\ Val(dex).liquidity.totalLiquidity < 10000
    THEN AddRisk(acc,
                 Times(Tenths(riskWeights.LIQUIDITY_RISK), IF ver.isVerified THEN 4 ELSE 8),
                 "Very low liquidity (< $10k)")
    ELSE IF IsSome(dex) /\ Val(dex).liquidity.totalLiquidity < 50000
    THEN AddRisk(acc,
                 Times(Tenths(riskWeights.LIQUIDITY_RISK), IF ver.isVerified THEN 2 ELSE 5),
                 "Low liquidity (< $50k)")
    ELSE acc

(* lines 1148-1182: volume against liquidity *)
VolumeLiquidityStep(acc, ver, dex) ==
    IF IsSome(dex) /\ IsSome(Val(dex).volumeLiquidityAnalysis)
    THEN LET vla == Val(Val(dex).volumeLiquidityAnalysis) IN
         IF vla.context = "SUSPICIOUS"
         THEN AddRisk(acc,
                      Times(Tenths(riskWeights.LIQUIDITY_RISK),
                            IF ver.isVerified THEN 3 ELSE 8),
                      "Suspicious volume-to-liquidity pattern: " \o vla.explanation)
         ELSE IF vla.context = "LEGITIMATE"
         THEN AddSafety(acc, "Legitimate volume-to-liquidity pattern: " \o vla.explanation)
         ELSE AddRisk(acc, 0,
                      "Volume-to-liquidity ratio: " \o toFixed2(vla.ratio)
                      \o "x (" \o vla.context \o ")")
    ELSE IF IsSome(dex)
            /\ Val(dex).volume.volume24h > Val(dex).liquidity.totalLiquidity * 5
    THEN AddRisk(acc,
                 Times(Tenths(riskWeights.LIQUIDITY_RISK), IF ver.isVerified THEN 2 ELSE 6),
                 "High volume relative to liquidity")
    ELSE acc

(* lines 1184-1201: favourable DEX metrics *)
DexSafetyStep(acc, dex) ==
    IF ~IsSome(dex) THEN acc
    ELSE LET d == Val(dex)
             a1 == IF d.liquidity.totalLiquidity > 100000
                   THEN AddSafety(acc, "Strong liquidity: $"
                                       \o toLocaleString(d.liquidity.totalLiquidity)
                                       \o " USD")
                   ELSE acc
             a2 == IF d.lockStatus.isLocked
                   THEN AddSafety(a1, "Liquidity locked: "
                                      \o ToString(d.lockStatus.lockPercentage) \o "% for "
                                      \o ToString(d.lockStatus.lockDuration) \o " days")
                   ELSE a1
         IN  IF d.pools > 1
             THEN AddSafety(a2, "Multiple DEX pools: " \o ToString(d.pools) \o " exchanges")
             ELSE a2

(* Mutant of RiskLevelFor: an OFFICIAL token is banded with the thresholds *)
(* of an ESTABLISHED one.                                                  *)
RiskLevelForOfficialAsEstablished(totalScore, ver) ==
    IF ver.isVerified
    THEN IF ver.verificationLevel \in {"OFFICIAL", "ESTABLISHED"}
         THEN (IF totalScore >= Tenths(35) THEN "HIGH"
               ELSE IF totalScore >= Tenths(20) THEN "MEDIUM" ELSE "LOW")
         ELSE (IF totalScore >= Tenths(45) THEN "HIGH"
               ELSE IF totalScore >= Tenths(30) THEN "MEDIUM" ELSE "LOW")
    ELSE IF totalScore >= Tenths(80) THEN "CRITICAL"
         ELSE IF totalScore >= Tenths(60) THEN "HIGH"
         ELSE IF totalScore >= Tenths(40) THEN "MEDIUM"
         ELSE "LOW"

(* lines 1203-1228: the verification-dependent level table (score in tenths) *)
RiskLevelFor(totalScore, ver) ==
    IF ver.isVerified
    THEN IF ver.verificationLevel = "OFFICIAL"
         THEN (IF totalScore >= Tenths(25) THEN "MEDIUM" ELSE "LOW")
         ELSE IF ver.verificationLevel = "ESTABLISHED"
         THEN (IF totalScore >= Tenths(35) THEN "HIGH"
               ELSE IF totalScore >= Tenths(20) THEN "MEDIUM" ELSE "LOW")
         ELSE (IF totalScore >= Tenths(45) THEN "HIGH"
               ELSE IF totalScore >= Tenths(30) THEN "MEDIUM" ELSE "LOW")
    ELSE IF totalScore >= Tenths(80) THEN "CRITICAL"
         ELSE IF totalScore >= Tenths(60) THEN "HIGH"
         ELSE IF totalScore >= Tenths(40) THEN "MEDIUM"
         ELSE "LOW"

(* lines 896-1201: the accumulated total with its factor lists *)
Accumulate(an, ver, dex, isRecentlyLaunched) ==
    DexSafetyStep(
      VolumeLiquidityStep(
        LiquidityStep(
          RugPullStep(
            ContextSteps(BaselineStep(ScoreStart, ver, isRecentlyLaunched),
                         an, ver, isRecentlyLaunched),
            ver, dex),
          ver, dex),
        ver, dex),
      dex)

(* line 1230: analysis.riskScore = Math.round(totalScore) *)
ReportedScore(totalScore) == MathRound(totalScore, 10)

(* calculateDynamicRiskScore: the analysis record after the call *)
calculateDynamicRiskScore(an, ver, dex, social) ==
    LET isRecentlyLaunched ==
            isRecentlyLaunchedLegitimateToken(an, ver,
                                              dex, social)
        acc == Accumulate(an, ver, dex, isRecentlyLaunched)
        scored ==
            [an EXCEPT
                !.riskScore = ReportedScore(acc.totalScore),
                !.riskLevel = RiskLevelFor(acc.totalScore, ver),
                !.riskFactors = acc.factors,
                !.safetyFactors = acc.safetyFactors,
                !.recommendations =
                    generateDynamicRecommendations(acc.totalScore, ver,
                                                   isRecentlyLaunched)]
    IN  IF ver.isVerified /\ ~IsSome(an.whitelistInfo)
        THEN [scored EXCEPT
                !.isWhitelisted = TRUE,
                !.whitelistInfo =
                    Some([name |-> IF IsSome(an.tokenInfo)
                                      /\ Val(an.tokenInfo).name # <<>>
                                   THEN Val(an.tokenInfo).name
                                   ELSE <<"V", "e", "r", "i", "f", "i", "e", "d", " ",
                                          "T", "o", "k", "e", "n">>,
                          symbol |-> IF IsSome(an.tokenInfo)
                                        /\ Val(an.tokenInfo).symbol # ""
                                     THEN Val(an.tokenInfo).symbol ELSE "VERIFIED",
                          reason |-> join(ver.reasons, ", "),
                          riskOverride |->
                              getRiskOverrideForVerification(
                                  ver.verificationLevel)])]
        ELSE scored
----------------------------------------------------------------------------
(* analyzeToken: the analysis record as constructed on line 60 (the        *)
(* timestamp is left out), and the values the collectors hand back.        *)
(* DexRugged is what analyzeDEXData computes for one pool of $4,000 with   *)
(* $90,000 of daily volume (dexService.ts calculateRugPullRisk and         *)
(* analyzeVolumeLiquidityPattern).                                         *)

InitialAnalysis(tokenAddress) ==
    [tokenAddress |-> tokenAddress, tokenInfo |-> Null, mintInfo |-> Null,
     transactionData |-> Null, creatorData |-> Null, isWhitelisted |-> FALSE,
     whitelistInfo |-> Null, riskScore |-> 0, riskLevel |-> "LOW",
     riskFactors |-> <<>>, safetyFactors |-> <<>>, recommendations |-> <<>>,
     dexData |-> Null]

MintInfo(mintRevoked, freezeRevoked) ==
    [mintRevoked |-> mintRevoked, freezeRevoked |-> freezeRevoked]

(* lines 578-589: the analysis of a history that was found; the collector  *)
(* returns it only when at least one signature came back (line 494), and   *)
(* totalTransactions is the number of signatures of the page (up to 100).  *)
TransactionAnalysis(daysActive, totalTransfers) ==
    [totalTransactions |-> 100, daysActive |-> daysActive,
     totalTransfers |-> totalTransfers]

(* lines 691-708: what analyzeTransactions returns when the request fails  *)
(* (line 592-597) or no signature is found (line 494-497).                 *)
getEmptyTransactionAnalysis ==
    [totalTransactions |-> 0, daysActive |-> 0, totalTransfers |-> 0]

CreatorAnalysis(level) == [level |-> level]

NoLock == [isLocked |-> FALSE, lockPercentage |-> 0, lockDuration |-> 0]

DexHealthy ==
    [liquidity |-> [totalLiquidity |-> 250000], volume |-> [volume24h |-> 80000],
     rugPullRisk |-> [detected |-> FALSE, confidence |-> 0, indicators |-> <<>>],
     lockStatus |-> [isLocked |-> TRUE, lockPercentage |-> 80, lockDuration |-> 365],
     pools |-> 3,
     volumeLiquidityAnalysis |->
         Some([context |-> "LEGITIMATE", ratio |-> 32,
               explanation |-> "Patterns consistent with legitimate trading activity"])]

DexRugged ==
    [liquidity |-> [totalLiquidity |-> 4000], volume |-> [volume24h |-> 90000],
     rugPullRisk |-> [detected |-> TRUE, confidence |-> 100,
                      indicators |-> <<"Very low liquidity", "Low liquidity",
                                       "High volume relative to liquidity",
                                       "Single low-liquidity pool">>],
     lockStatus |-> NoLock, pools |-> 1,
     volumeLiquidityAnalysis |->
         Some([context |-> "SUSPICIOUS", ratio |-> 2250,
               explanation |-> "High confidence of suspicious trading patterns detected"])]

DexThin ==
    [liquidity |-> [totalLiquidity |-> 20000], volume |-> [volume24h |-> 5],
     rugPullRisk |-> [detected |-> FALSE, confidence |-> 0, indicators |-> <<>>],
     lockStatus |-> NoLock, pools |-> 1,
     volumeLiquidityAnalysis |->
         Some([context |-> "NORMAL", ratio |-> 0,
               explanation |-> "Mixed indicators - moderate risk level"])]

DexNoPattern ==
    [liquidity |-> [totalLiquidity |-> 4000], volume |-> [volume24h |-> 90000],
     rugPullRisk |-> [detected |-> TRUE, confidence |-> 60,
                      indicators |-> <<"Liquidity removed">>],
     lockStatus |-> NoLock, pools |-> 2,
     volumeLiquidityAnalysis |-> Null]

DexEmpty ==
    [liquidity |-> [totalLiquidity |-> 0], volume |-> [volume24h |-> 0],
     rugPullRisk |-> [detected |-> FALSE, confidence |-> 0, indicators |-> <<>>],
     lockStatus |-> NoLock, pools |-> 0,
     volumeLiquidityAnalysis |->
         Some([context |-> "NORMAL", ratio |-> 0,
               explanation |-> "Insufficient data for analysis"])]

SocialStrong ==
    [overallScore |-> 80, twitterVerified |-> TRUE, twitterFollowers |-> 12000,
     telegramMembers |-> 3000, discordMembers |-> 0]

SocialWeak ==
    [overallScore |-> 10, twitterVerified |-> FALSE, twitterFollowers |-> 40,
     telegramMembers |-> 0, discordMembers |-> 0]

(* Variables left alone by a specification of another component. *)
IdleAggregate ==
    /\ aggTokenAddress = NEWMINT /\ aggChecks = <<>>
    /\ aggMetadata = Null /\ aggResult = Null

IdleAnalyzer ==
    /\ pc = "idle" /\ analysis = InitialAnalysis(NEWMINT)
    /\ verificationResult = Null /\ dexData = Null /\ socialMediaData = Null
    /\ thrownAt = ""

IdleService ==
    /\ cache = [a \in TokenAddresses |-> Null] /\ now = 0
    /\ evidence = [a \in TokenAddresses |-> [coingecko |-> Null, jupiter |-> Null,
                                            registry |-> FALSE, totalLiquidity |-> 0]]
    /\ lastCall = Null

(* The sockets the server will see, in the order in which they connect. *)
MaxSockets == 7
SocketIds == 1..MaxSockets

(* connectionMonitor.ts line 27-31 (constructor): no connection is         *)
(* tracked; no socket has connected.                                       *)
IdleMonitor ==
    /\ connections = [s \in SocketIds |-> Null]
    /\ socketState = [s \in SocketIds |-> "unused"]
    /\ rooms = [s \in SocketIds |-> {}]
----------------------------------------------------------------------------
(* VerificationService.verifyToken and its cache.  The external evidence   *)
(* about a token (what the registries and the DEX report) is one record    *)
(* per address, fixed for a behaviour; time is counted in minutes.         *)

CACHE_TTL == 30

MaxClock == 40

NoListing ==
    [coingecko |-> Null, jupiter |-> Null, registry |-> FALSE, totalLiquidity |-> 0]
RegistryListed ==
    [coingecko |-> Null, jupiter |-> Null, registry |-> TRUE, totalLiquidity |-> 20000]
MajorListed ==
    [coingecko |-> Some([trustScore |-> 90, marketCapRank |-> 7]),
     jupiter |-> Some([verified |-> TRUE]), registry |-> TRUE,
     totalLiquidity |-> 900000]

EvidenceRecords == {NoListing, RegistryListed, MajorListed}

EmptyCache == [a \in TokenAddresses |-> Null]

(* lines 60-67: the six collectors, settled.  Every collector catches its  *)
(* own errors, so each entry is fulfilled with a value.                    *)
verificationChecks(tokenAddress, metadata, ev) ==
    << Fulfilled(checkCoinGeckoListing(ev.coingecko)),
       Fulfilled(checkJupiterListing(ev.jupiter)),
       Fulfilled(checkSolanaTokenRegistry(ev.registry)),
       Fulfilled(checkOnChainVerification(metadata)),
       Fulfilled(checkLiquidityPresence(ev.totalLiquidity)),
       Fulfilled(checkGovernanceTokens(tokenAddress)) >>

(* lines 55-58: the cache entry that is still served at time t *)
CacheHit(c, tokenAddress, t) ==
    IsSome(c[tokenAddress]) /\ t - Val(c[tokenAddress]).timestamp < CACHE_TTL

(* verifyToken: the result returned, and the cache after the call *)
verifyToken(c, tokenAddress, metadata, ev, t) ==
    IF CacheHit(c, tokenAddress, t)
    THEN [result |-> Val(c[tokenAddress]).result, cache |-> c, cached |-> TRUE]
    ELSE LET result == aggregateVerificationResults(
                           tokenAddress,
                           verificationChecks(tokenAddress, metadata, ev[tokenAddress]),
                           metadata)
         IN  [result |-> result,
              cache |-> [c EXCEPT ![tokenAddress] =
                                      Some([result |-> result, timestamp |-> t])],
              cached |-> FALSE]

(* getWhitelistInfo: the whitelist record (optional), and the cache after *)
getWhitelistInfo(c, tokenAddress, metadata, ev, t) ==
    LET call == verifyToken(c, tokenAddress, metadata, ev, t)
        verification == call.result
    IN  [cache |-> call.cache,
         info |->
            IF ~verification.isVerified THEN Null
            ELSE Some([name |-> IF IsSome(metadata) /\ Val(metadata).name # <<>>
                                THEN Val(metadata).name
                                ELSE <<"V", "e", "r", "i", "f", "i", "e", "d", " ",
                                       "T", "o", "k", "e", "n">>,
                       symbol |-> IF IsSome(metadata) /\ Val(metadata).symbol # ""
                                  THEN Val(metadata).symbol ELSE "VERIFIED",
                       reason |-> join(verification.reasons, ", "),
                       riskOverride |->
                           IF verification.verificationLevel = "COMMUNITY"
                           THEN "MEDIUM" ELSE "LOW"])]

(* Mutant of clearCache: the argument is ignored and the whole cache is    *)
(* emptied.                                                                *)
clearCacheWhole(c, tokenAddress) == EmptyCache

(* clearCache(tokenAddress?) *)
clearCache(c, tokenAddress) ==
    IF IsSome(tokenAddress) THEN [c EXCEPT ![Val(tokenAddress)] = Null] ELSE EmptyCache

ServiceAddresses == {NEWMINT, JUP}
ServiceMetadata == {Null, Some(MdComplete), Some(MdNameless)}

InitVerify ==
    /\ IdleAggregate /\ IdleAnalyzer /\ IdleMonitor
    /\ cache = EmptyCache
    /\ now = 0
    /\ evidence \in [TokenAddresses -> EvidenceRecords]
    /\ evidence[WSOL] = MajorListed /\ evidence[USDC] = MajorListed
    /\ evidence[JUP] \in {MajorListed, RegistryListed}
    /\ evidence[NEWMINT] \in {NoListing, RegistryListed}
    /\ lastCall = Null

(* One call of verifyToken(tokenAddress, metadata?) on the service. *)
VerifyToken(tokenAddress, metadata) ==
    LET call == verifyToken(cache, tokenAddress, metadata, evidence, now) IN
    /\ cache' = call.cache
    /\ lastCall' = Some([tokenAddress |-> tokenAddress, metadata |-> metadata,
                         result |-> call.result, cached |-> call.cached])
    /\ UNCHANGED <<now, evidence>>
    /\ UNCHANGED <<aggVars, analyzerVars, monitorVars>>

(* DELETE /cache: clearCache(tokenAddress) or clearCache() *)
ClearCache(tokenAddress) ==
    /\ cache' = clearCache(cache, tokenAddress)
    /\ UNCHANGED <<now, evidence, lastCall>>
    /\ UNCHANGED <<aggVars, analyzerVars, monitorVars>>

(* Date.now() advances between calls. *)
Tick ==
    /\ \E d \in {10, 20} : now + d <= MaxClock /\ now' = now + d
    /\ UNCHANGED <<cache, evidence, lastCall>>
    /\ UNCHANGED <<aggVars, analyzerVars, monitorVars>>

NextVerify ==
    \/ \E a \in ServiceAddresses, m \in ServiceMetadata : VerifyToken(a, m)
    \/ \E a \in {Null} \cup {Some(x) : x \in ServiceAddresses} : ClearCache(a)
    \/ Tick

SpecVerify == InitVerify /\ [][NextVerify]_vars
----------------------------------------------------------------------------
(* analyzeToken: the pipeline, one action per awaited step; an exception   *)
(* thrown at any step inside the try block is caught on line 167.          *)

PipelineSteps ==
    <<"metadata", "mintInfo", "verification", "whitelistInfo", "transactions",
      "creator", "dex", "social", "scoring", "dexIntegration", "summary">>

InPipeline == \E i \in 1..Len(PipelineSteps) : pc = PipelineSteps[i]

AnalyzerAddresses == {USDC, JUP, NEWMINT}
PipelineMetadata == {Null, Some(MdComplete), Some(MdFallback)}
PipelineMintInfo == {Null, Some(MintInfo(FALSE, FALSE)), Some(MintInfo(TRUE, TRUE))}
PipelineTransactions ==
    {getEmptyTransactionAnalysis, TransactionAnalysis(50, 20), TransactionAnalysis(4000, 500)}
PipelineDex == {Null, Some(DexHealthy), Some(DexRugged)}
PipelineSocial == {Null, Some(SocialStrong)}

InitAnalyze ==
    /\ IdleAggregate /\ IdleMonitor
    /\ pc = "metadata"
    /\ analysis \in {InitialAnalysis(a) : a \in AnalyzerAddresses}
    /\ verificationResult = Null /\ dexData = Null /\ socialMediaData = Null
    /\ thrownAt = ""
    /\ cache = EmptyCache /\ now = 0 /\ lastCall = Null
    /\ evidence \in [TokenAddresses -> EvidenceRecords]
    /\ evidence[WSOL] = MajorListed /\ evidence[USDC] = MajorListed
    /\ evidence[JUP] \in {MajorListed, RegistryListed}
    /\ evidence[NEWMINT] \in {NoListing, RegistryListed}

AnalyzerFrame == UNCHANGED <<aggVars, now, evidence, lastCall, thrownAt, monitorVars>>

(* Step 1 (lines 77-79) *)
FetchMetadata ==
    /\ pc = "metadata"
    /\ \E info \in PipelineMetadata : analysis' = [analysis EXCEPT !.tokenInfo = info]
    /\ pc' = "mintInfo"
    /\ UNCHANGED <<verificationResult, dexData, socialMediaData, cache>>
    /\ AnalyzerFrame

(* Step 2 (lines 81-83) *)
FetchMintInfo ==
    /\ pc = "mintInfo"
    /\ \E info \in PipelineMintInfo : analysis' = [analysis EXCEPT !.mintInfo = info]
    /\ pc' = "verification"
    /\ UNCHANGED <<verificationResult, dexData, socialMediaData, cache>>
    /\ AnalyzerFrame

(* Step 3 (lines 85-92) *)
Verify ==
    /\ pc = "verification"
    /\ LET call == verifyToken(cache, analysis.tokenAddress, analysis.tokenInfo,
                               evidence, now)
       IN  /\ verificationResult' = Some(call.result)
           /\ cache' = call.cache
           /\ analysis' = [analysis EXCEPT !.isWhitelisted = call.result.isVerified]
           /\ pc' = IF call.result.isVerified THEN "whitelistInfo" ELSE "transactions"
    /\ UNCHANGED <<dexData, socialMediaData>>
    /\ AnalyzerFrame

(* Step 3, verified branch (lines 94-99) *)
FetchWhitelistInfo ==
    /\ pc = "whitelistInfo"
    /\ LET call == getWhitelistInfo(cache, analysis.tokenAddress, analysis.tokenInfo,
                                    evidence, now)
       IN  /\ analysis' = [analysis EXCEPT !.whitelistInfo = call.info]
           /\ cache' = call.cache
    /\ pc' = "transactions"
    /\ UNCHANGED <<verificationResult, dexData, socialMediaData>>
    /\ AnalyzerFrame

(* Step 4 (lines 119-121): analyzeTransactions returns the empty analysis  *)
(* when the collector fails or finds nothing.                              *)
AnalyzeTransactions ==
    /\ pc = "transactions"
    /\ \E tx \in PipelineTransactions :
          analysis' = [analysis EXCEPT !.transactionData = Some(tx)]
    /\ pc' = "creator"
    /\ UNCHANGED <<verificationResult, dexData, socialMediaData, cache>>
    /\ AnalyzerFrame

(* Step 5 (lines 123-127): analyzeCreator returns null *)
AnalyzeCreator ==
    /\ pc = "creator"
    /\ analysis' = [analysis EXCEPT !.creatorData = Null]
    /\ pc' = "dex"
    /\ UNCHANGED <<verificationResult, dexData, socialMediaData, cache>>
    /\ AnalyzerFrame

(* Step 6 (lines 129-131) *)
AnalyzeDex ==
    /\ pc = "dex"
    /\ dexData' \in PipelineDex
    /\ pc' = "social"
    /\ UNCHANGED <<analysis, verificationResult, socialMediaData, cache>>
    /\ AnalyzerFrame

(* Step 7 (lines 133-139) *)
AnalyzeSocial ==
    /\ pc = "social"
    /\ socialMediaData' \in PipelineSocial
    /\ pc' = "scoring"
    /\ UNCHANGED <<analysis, verificationResult, dexData, cache>>
    /\ AnalyzerFrame

(* Step 8 (lines 141-148) *)
CalculateRisk ==
    /\ pc = "scoring"
    /\ analysis' = calculateDynamicRiskScore(analysis, Val(verificationResult),
                                             dexData, socialMediaData)
    /\ pc' = "dexIntegration"
    /\ UNCHANGED <<verificationResult, dexData, socialMediaData, cache>>
    /\ AnalyzerFrame

(* Step 9 (lines 150-161) *)
IntegrateDex ==
    /\ pc = "dexIntegration"
    /\ analysis' = IF IsSome(dexData) THEN [analysis EXCEPT !.dexData = dexData]
                   ELSE analysis
    /\ pc' = "summary"
    /\ UNCHANGED <<verificationResult, dexData, socialMediaData, cache>>
    /\ AnalyzerFrame

(* lines 163-166: printDetailedSummary, return analysis *)
PrintSummary ==
    /\ pc = "summary"
    /\ pc' = "returned"
    /\ UNCHANGED <<analysis, verificationResult, dexData, socialMediaData, cache>>
    /\ AnalyzerFrame

(* Mutant of failSafe: the handler records the factor and returns the      *)
(* analysis as it stands.                                                  *)
failSafeFactorOnly(a) ==
    [a EXCEPT !.riskFactors = Append(@, "Technical analysis failed")]

(* lines 167-176: the catch block *)
failSafe(a) ==
    [a EXCEPT !.riskFactors = Append(@, "Technical analysis failed"),
              !.riskScore = 75,
              !.riskLevel = "HIGH"]

(* The step at pc throws; the handler resolves the call. *)
Fail ==
    /\ InPipeline
    /\ analysis' = failSafe(analysis)
    /\ thrownAt' = pc
    /\ pc' = "failed"
    /\ UNCHANGED <<verificationResult, dexData, socialMediaData, cache>>
    /\ UNCHANGED <<aggVars, now, evidence, lastCall, monitorVars>>

NextAnalyze ==
    \/ FetchMetadata \/ FetchMintInfo \/ Verify \/ FetchWhitelistInfo
    \/ AnalyzeTransactions \/ AnalyzeCreator \/ AnalyzeDex \/ AnalyzeSocial
    \/ CalculateRisk \/ IntegrateDex \/ PrintSummary
    \/ Fail

SpecAnalyze == InitAnalyze /\ [][NextAnalyze]_vars

----------------------------------------------------------------------------
(* calculateDynamicRiskScore over arbitrary arguments: the analysis, the   *)
(* verification result, the DEX data and the social data are drawn from    *)
(* the sets below and the call is made once.                               *)

VerificationResultOf(level, confidence, sources) ==
    [isVerified |-> level # "UNVERIFIED", verificationLevel |-> level,
     confidence |-> confidence,
     reasons |-> IF sources = <<>> THEN <<"No verification sources found">>
                 ELSE [i \in 1..Len(sources) |-> "Verified on " \o sources[i]],
     sources |-> sources]

ScoreVerifications ==
    { VerificationResultOf("UNVERIFIED", 0, <<>>),
      VerificationResultOf("UNVERIFIED", 43, <<"On-chain Metadata">>),
      VerificationResultOf("UNVERIFIED", 100, <<"On-chain Metadata">>),
      VerificationResultOf("COMMUNITY", 40, <<"Solana Token Registry">>),
      VerificationResultOf("COMMUNITY", 100, <<"Solana Token Registry">>),
      VerificationResultOf("ESTABLISHED", 70, <<"CoinGecko">>),
      VerificationResultOf("ESTABLISHED", 100, <<"CoinGecko">>),
      VerificationResultOf("OFFICIAL", 80, <<"CoinGecko", "Jupiter">>),
      VerificationResultOf("OFFICIAL", 100, <<"System Registry">>) }

ScoreMintInfo ==
    {Null} \cup {Some(MintInfo(m, f)) : m \in BOOLEAN, f \in BOOLEAN}

ScoreTransactions ==
    {Null} \cup {Some(TransactionAnalysis(d, n)) : d \in {0, 5, 50, 300, 4000}, n \in {2, 20, 500}}

ScoreCreators == {Null, Some(CreatorAnalysis("LOW")), Some(CreatorAnalysis("HIGH"))}

ScoreMetadata == {Null, Some(MdComplete), Some(MdFallback), Some(MdScamName)}

ScoreDex ==
    {Null, Some(DexHealthy), Some(DexRugged), Some(DexThin), Some(DexNoPattern),
     Some(DexEmpty)}

ScoreSocial == {Null, Some(SocialStrong), Some(SocialWeak)}

InitScore ==
    /\ IdleAggregate /\ IdleService /\ IdleMonitor
    /\ pc = "scoring"
    /\ \E info \in ScoreMetadata, mint \in ScoreMintInfo, tx \in ScoreTransactions,
          creator \in ScoreCreators :
          analysis = [InitialAnalysis(NEWMINT) EXCEPT
                         !.tokenInfo = info, !.mintInfo = mint,
                         !.transactionData = tx, !.creatorData = creator]
    /\ verificationResult \in {Some(v) : v \in ScoreVerifications}
    /\ dexData \in ScoreDex
    /\ socialMediaData \in ScoreSocial
    /\ thrownAt = ""

NextScore == CalculateRisk

SpecScore == InitScore /\ [][NextScore]_vars
----------------------------------------------------------------------------
(* Aggregation of an arbitrary evidence list.  The lists are drawn from    *)
(* CheckUniverse: what the six collectors return, a promise that rejected, *)
(* a promise that resolved without a value, and results that do not follow *)
(* the collectors' convention (weight without a match, a match without     *)
(* weight), which the aggregator accepts all the same.                     *)

MaxChecks == 3

CheckUniverse ==
    { Rejected,
      FulfilledEmpty,
      Fulfilled(checkCoinGeckoListing(Some([trustScore |-> 90, marketCapRank |-> 7]))),
      Fulfilled(checkJupiterListing(Some([verified |-> TRUE]))),
      Fulfilled(checkSolanaTokenRegistry(TRUE)),
      Fulfilled(checkOnChainVerification(Some(MdComplete))),
      Fulfilled(checkLiquidityPresence(75000)),
      Fulfilled(checkGovernanceTokens(JUP)),
      Fulfilled(checkCoinGeckoListing(Null)),
      Fulfilled(CheckValue(FALSE, 20, "DEX Liquidity", NoDetails)),
      Fulfilled(CheckValue(FALSE, 45, "CoinGecko", NoDetails)),
      Fulfilled(CheckValue(TRUE, 0, "Jupiter", NoDetails)) }

CheckLists == UNION { [1..n -> CheckUniverse] : n \in 0..MaxChecks }

AggMetadataValues == {Null, Some(MdComplete), Some(MdNameless)}

InitAggregate ==
    /\ aggTokenAddress \in {USDC, NEWMINT}
    /\ aggChecks \in CheckLists
    /\ aggMetadata \in AggMetadataValues
    /\ aggResult = Null
    /\ IdleAnalyzer /\ IdleService /\ IdleMonitor

(* The call itself. *)
Aggregate ==
    /\ aggResult = Null
    /\ aggResult' = Some(aggregateVerificationResults(aggTokenAddress, aggChecks, aggMetadata))
    /\ UNCHANGED <<aggTokenAddress, aggChecks, aggMetadata>>
    /\ UNCHANGED <<analyzerVars, serviceVars, monitorVars>>

NextAggregate == Aggregate

SpecAggregate == InitAggregate /\ [][NextAggregate]_vars
----------------------------------------------------------------------------
(* ConnectionMonitor (utils/connectionMonitor.ts) and the Socket.IO        *)
(* handlers of server.ts.  A socket is "unused" before it connects,        *)
(* "pending" while its connection handler awaits the rate limiter,         *)
(* "pendingClosed" if the client left meanwhile, "open" once it was        *)
(* admitted and its event handlers are registered, and "closed" after.     *)
(* A ConnectionInfo keeps the fields the monitor reads: ip, lastActivity   *)
(* and subscriptionCount.                                                  *)

MAX_CONNECTIONS_PER_IP == 5
MAX_SUBSCRIPTIONS_PER_SOCKET == 10
CONNECTION_TIMEOUT == 5

(* The longest uptime followed, in minutes. *)
MaxUptime == 6

(* The number of distinct valid token addresses a client asks for. *)
MaxTokens == 11

(* socket.handshake.address: the first six sockets share one address. *)
HandshakeAddress(socketId) == IF socketId <= 6 THEN "203.0.113.1" ELSE "203.0.113.2"
ClientIPs == {HandshakeAddress(s) : s \in SocketIds}

(* The tokenAddress of an event: which address it is, its length, and      *)
(* whether all its characters are letters or digits.                       *)
ValidAddresses == {[id |-> i, length |-> 44, alnum |-> TRUE] : i \in 1..MaxTokens}
ShortAddress == [id |-> 0, length |-> 5, alnum |-> TRUE]
EventData == {Null} \cup {Some(a) : a \in ValidAddresses \cup {ShortAddress}}

(* server.ts line 445: data.tokenAddress is present and matches            *)
(* /^[A-Za-z0-9]{32,44}$/                                                  *)
ValidTokenAddress(data) ==
    IsSome(data) /\ Val(data).alnum /\ Val(data).length >= 32 /\ Val(data).length <= 44

ConnectionInfo(ip, t) == [ip |-> ip, lastActivity |-> t, subscriptionCount |-> 0]

(* getConnectionsByIP: the socket ids of the tracked connections of ip *)
getConnectionsByIP(conns, ip) ==
    {s \in DOMAIN conns : IsSome(conns[s]) /\ Val(conns[s]).ip = ip}

(* Mutant of addConnection: the limit is tested with > instead of >=. *)
addConnectionOneMore(conns, socketId, ip, t) ==
    IF Cardinality(getConnectionsByIP(conns, ip)) > MAX_CONNECTIONS_PER_IP
    THEN [allowed |-> FALSE, connections |-> conns]
    ELSE [allowed |-> TRUE,
          connections |-> [conns EXCEPT ![socketId] = Some(ConnectionInfo(ip, t))]]

(* addConnection: the value returned, and the table after the call *)
addConnection(conns, socketId, ip, t) ==
    IF Cardinality(getConnectionsByIP(conns, ip)) >= MAX_CONNECTIONS_PER_IP
    THEN [allowed |-> FALSE, connections |-> conns]
    ELSE [allowed |-> TRUE,
          connections |-> [conns EXCEPT ![socketId] = Some(ConnectionInfo(ip, t))]]

(* removeConnection *)
removeConnection(conns, socketId) == [conns EXCEPT ![socketId] = Null]

(* updateActivity *)
updateActivity(conns, socketId, t) ==
    IF IsSome(conns[socketId])
    THEN [conns EXCEPT ![socketId] = Some([Val(@) EXCEPT !.lastActivity = t])]
    ELSE conns

(* addSubscription: the value returned, and the table after the call *)
addSubscription(conns, socketId, t) ==
    IF ~IsSome(conns[socketId])
    THEN [allowed |-> FALSE, connections |-> conns]
    ELSE IF Val(conns[socketId]).subscriptionCount >= MAX_SUBSCRIPTIONS_PER_SOCKET
    THEN [allowed |-> FALSE, connections |-> conns]
    ELSE [allowed |-> TRUE,
          connections |->
              [conns EXCEPT ![socketId] =
                  Some([Val(@) EXCEPT !.subscriptionCount = @ + 1, !.lastActivity = t])]]

(* removeSubscription *)
removeSubscription(conns, socketId, t) ==
    IF IsSome(conns[socketId])
    THEN [conns EXCEPT ![socketId] =
             Some([Val(@) EXCEPT !.subscriptionCount = Max(0, @ - 1),
                                 !.lastActivity = t])]
    ELSE conns

(* cleanupInactiveConnections: the connections it removes at time t *)
InactiveConnections(conns, t) ==
    {s \in DOMAIN conns :
        IsSome(conns[s]) /\ t - Val(conns[s]).lastActivity > CONNECTION_TIMEOUT}

(* socket.disconnect(true) on each socket of the set that is still         *)
(* connected, and the deletion of the set from the table; a socket that    *)
(* is disconnected leaves its rooms.                                       *)
DisconnectAll(removed) ==
    /\ connections' = [s \in SocketIds |-> IF s \in removed THEN Null ELSE connections[s]]
    /\ socketState' = [s \in SocketIds |->
                          IF s \in removed /\ socketState[s] = "open"
                          THEN "closed" ELSE socketState[s]]
    /\ rooms' = [s \in SocketIds |->
                    IF s \in removed /\ socketState[s] = "open" THEN {} ELSE rooms[s]]

MonitorFrame == UNCHANGED <<aggVars, analyzerVars, cache, evidence, lastCall>>

(* server.ts line 390-398: a client connects; the handler starts and       *)
(* awaits the rate limiter.  Socket ids are fresh, in increasing order,    *)
(* and one handshake is followed at a time.                                *)
Connection(socketId) ==
    /\ socketState[socketId] = "unused"
    /\ \A s \in SocketIds : s < socketId => socketState[s] \in {"open", "closed"}
    /\ socketState' = [socketState EXCEPT ![socketId] = "pending"]
    /\ UNCHANGED <<connections, rooms, now>>
    /\ MonitorFrame

(* server.ts line 398-437: the rate limiter answers.  A rejected socket is *)
(* disconnected; otherwise addConnection decides, and the handlers of an   *)
(* admitted socket are registered.  If the client left while the handler   *)
(* was waiting, no disconnect event will follow.                           *)
Admit(socketId, rateLimited) ==
    /\ socketState[socketId] \in {"pending", "pendingClosed"}
    /\ IF rateLimited
       THEN /\ socketState' = [socketState EXCEPT ![socketId] = "closed"]
            /\ UNCHANGED connections
       ELSE LET added == addConnection(connections, socketId,
                                       HandshakeAddress(socketId), now)
            IN  /\ connections' = added.connections
                /\ socketState' =
                       [socketState EXCEPT ![socketId] =
                           IF added.allowed /\ socketState[socketId] = "pending"
                           THEN "open" ELSE "closed"]
    /\ UNCHANGED <<rooms, now>>
    /\ MonitorFrame

(* The client goes away.  server.ts line 429-437: the disconnect handler   *)
(* of an admitted socket removes its connection.                           *)
Disconnect(socketId) ==
    /\ socketState[socketId] \in {"pending", "open"}
    /\ IF socketState[socketId] = "open"
       THEN /\ connections' = removeConnection(connections, socketId)
            /\ socketState' = [socketState EXCEPT ![socketId] = "closed"]
            /\ rooms' = [rooms EXCEPT ![socketId] = {}]
       ELSE /\ socketState' = [socketState EXCEPT ![socketId] = "pendingClosed"]
            /\ UNCHANGED <<connections, rooms>>
    /\ UNCHANGED now
    /\ MonitorFrame

(* server.ts line 439-483: "subscribe:analysis" *)
Subscribe(socketId, data) ==
    /\ socketState[socketId] = "open"
    /\ LET active == updateActivity(connections, socketId, now)
           added == addSubscription(active, socketId, now)
       IN  IF ~ValidTokenAddress(data)
           THEN connections' = active /\ UNCHANGED rooms
           ELSE /\ connections' = added.connections
                /\ rooms' = IF added.allowed
                            THEN [rooms EXCEPT ![socketId] = @ \cup {Val(data)}]
                            ELSE rooms
    /\ UNCHANGED <<socketState, now>>
    /\ MonitorFrame

(* server.ts line 485-501: "unsubscribe:analysis" *)
Unsubscribe(socketId, data) ==
    /\ socketState[socketId] = "open"
    /\ connections' = removeSubscription(updateActivity(connections, socketId, now),
                                         socketId, now)
    /\ rooms' = [rooms EXCEPT ![socketId] = IF IsSome(data) THEN @ \ {Val(data)} ELSE @]
    /\ UNCHANGED <<socketState, now>>
    /\ MonitorFrame

(* server.ts line 503-507: "ping" *)
Ping(socketId) ==
    /\ socketState[socketId] = "open"
    /\ connections' = updateActivity(connections, socketId, now)
    /\ UNCHANGED <<socketState, rooms, now>>
    /\ MonitorFrame

(* cleanupInactiveConnections, run by the cleanup timer; a run that finds  *)
(* no inactive connection changes nothing.                                 *)
CleanupInactiveConnections ==
    /\ InactiveConnections(connections, now) # {}
    /\ DisconnectAll(InactiveConnections(connections, now))
    /\ UNCHANGED now
    /\ MonitorFrame

(* forceDisconnectIP, called by the admin route (server.ts line 215) *)
ForceDisconnectIP(ip) ==
    /\ getConnectionsByIP(connections, ip) # {}
    /\ DisconnectAll(getConnectionsByIP(connections, ip))
    /\ UNCHANGED now
    /\ MonitorFrame

(* More than CONNECTION_TIMEOUT elapses. *)
Elapse ==
    /\ now + CONNECTION_TIMEOUT + 1 <= MaxUptime
    /\ now' = now + CONNECTION_TIMEOUT + 1
    /\ UNCHANGED monitorVars
    /\ MonitorFrame

InitMonitor == IdleAggregate /\ IdleAnalyzer /\ IdleService /\ IdleMonitor

(* The connection table under connections, disconnections, pings, the      *)
(* cleanup timer and the admin route.                                      *)
NextConnect ==
    \/ \E s \in SocketIds : Connection(s)
    \/ \E s \in SocketIds, rateLimited \in BOOLEAN : Admit(s, rateLimited)
    \/ \E s \in SocketIds : Disconnect(s)
    \/ \E s \in SocketIds : Ping(s)
    \/ CleanupInactiveConnections
    \/ \E ip \in ClientIPs : ForceDisconnectIP(ip)
    \/ Elapse

SpecConnect == InitMonitor /\ [][NextConnect]_vars

(* The subscriptions of the first socket. *)
NextSubscribe ==
    \/ Connection(1)
    \/ \E rateLimited \in BOOLEAN : Admit(1, rateLimited)
    \/ Disconnect(1)
    \/ \E data \in EventData : Subscribe(1, data)
    \/ \E data \in EventData : Unsubscribe(1, data)

SpecSubscribe == InitMonitor /\ [][NextSubscribe]_vars


----------------------------------------------------------------------------
(* Properties of the aggregator (SpecAggregate) *)

AggDone == IsSome(aggResult)
AggCritical == aggTokenAddress \in DOMAIN criticalTokens

Participated(check) == check.status = "fulfilled" /\ IsSome(check.value)
Matched(check) == Participated(check) /\ Val(check.value).verified

(* Sum of the weights of the checks of a list that satisfy P. *)
WeightWhere(checks, P(_)) ==
    SeqSum([i \in 1..Len(checks) |->
              IF P(checks[i]) THEN Val(checks[i].value).weight ELSE 0])

Permute(s, p) == [i \in 1..Len(s) |-> s[p[i]]]
InsertAt(s, i, x) == SubSeq(s, 1, i) \o <<x>> \o SubSeq(s, i + 1, Len(s))

(* C4: for a token of the critical-infrastructure registry the result is   *)
(* exactly {isVerified: true, level: OFFICIAL, confidence: 100,            *)
(* reasons: ["Critical infrastructure: <name>"], sources: ["System         *)
(* Registry"]}, whatever the evidence checks and the metadata are.         *)
C4_CriticalOverride ==
    (AggDone /\ AggCritical) =>
        Val(aggResult) =
            [isVerified |-> TRUE,
             verificationLevel |-> "OFFICIAL",
             confidence |-> 100,
             reasons |-> <<"Critical infrastructure: " \o criticalTokens[aggTokenAddress]>>,
             sources |-> <<"System Registry">>]

(* A critical token aggregated over evidence that would by itself have     *)
(* produced something else: a matched source, a rejected promise and an    *)
(* unmatched weight, with metadata supplied.                               *)
C4_Witness ==
    /\ AggDone /\ aggTokenAddress = USDC
    /\ IsSome(aggMetadata)
    /\ \E i \in 1..Len(aggChecks) : Matched(aggChecks[i])
    /\ \E i \in 1..Len(aggChecks) : aggChecks[i] = Rejected
    /\ \E i \in 1..Len(aggChecks) :
          Participated(aggChecks[i]) /\ ~Matched(aggChecks[i])
          /\ Val(aggChecks[i].value).weight > 0

(* C6: every permutation of the evidence list aggregates to the same       *)
(* confidence, the same verification level and the same isVerified.        *)
C6_OrderIndependent ==
    AggDone =>
        \A p \in Permutations(1..Len(aggChecks)) :
            LET r == aggregateVerificationResults(aggTokenAddress,
                                                  Permute(aggChecks, p), aggMetadata)
            IN  /\ r.confidence = Val(aggResult).confidence
                /\ r.verificationLevel = Val(aggResult).verificationLevel
                /\ r.isVerified = Val(aggResult).isVerified

(* A non-critical token, a list whose order shows in the result (two       *)
(* different matched sources) and a confidence strictly inside (0,100).    *)
C6_Witness ==
    /\ AggDone /\ ~AggCritical
    /\ Len(Val(aggResult).sources) >= 2
    /\ Val(aggResult).sources[1] # Val(aggResult).sources[2]
    /\ Val(aggResult).confidence > 0 /\ Val(aggResult).confidence < 100

(* C7: a check that did not participate (rejected promise, or fulfilled    *)
(* without a value) is absence of signal: inserting one at any position of *)
(* the list leaves the whole result (confidence, level, isVerified,        *)
(* reasons, sources) unchanged.                                            *)
C7_NonParticipantIgnored ==
    AggDone =>
        \A i \in 0..Len(aggChecks) : \A np \in {Rejected, FulfilledEmpty} :
            aggregateVerificationResults(aggTokenAddress,
                                         InsertAt(aggChecks, i, np), aggMetadata)
                = Val(aggResult)

(* A non-critical token whose list already holds a matched source next to  *)
(* a rejected promise and a promise fulfilled without a value.             *)
C7_Witness ==
    /\ AggDone /\ ~AggCritical
    /\ \E i \in 1..Len(aggChecks) : aggChecks[i] = Rejected
    /\ \E i \in 1..Len(aggChecks) : aggChecks[i] = FulfilledEmpty
    /\ \E i \in 1..Len(aggChecks) : Matched(aggChecks[i])
    /\ Val(aggResult).confidence = 100

C10_LevelThresholds ==
    (AggDone /\ ~AggCritical) =>
        LET r == Val(aggResult)
            c == r.confidence
            w == WeightWhere(aggChecks, Matched)
            official == c >= 80 /\ w >= 60
            established == ~official /\ c >= 60 /\ w >= 40
            community == ~official /\ ~established /\ c >= 40 /\ w >= 20
        IN  /\ (r.verificationLevel = "OFFICIAL") <=> official
            /\ (r.verificationLevel = "ESTABLISHED") <=> established
            /\ (r.verificationLevel = "COMMUNITY") <=> community
            /\ (r.verificationLevel = "UNVERIFIED")
                   <=> (~official /\ ~established /\ ~community)
            /\ r.isVerified <=> (r.verificationLevel # "UNVERIFIED")

(* Full confidence that is still not OFFICIAL because the matched weight   *)
(* stays under 60: the two thresholds are applied jointly.                 *)
C10_Witness ==
    /\ AggDone /\ ~AggCritical
    /\ Val(aggResult).confidence = 100
    /\ Val(aggResult).verificationLevel = "ESTABLISHED"
    /\ WeightWhere(aggChecks, Matched) < 60

----------------------------------------------------------------------------
(* Properties of the risk scoring engine (SpecScore) and of analyzeToken   *)
(* (SpecAnalyze)                                                           *)

Scored == pc = "dexIntegration"

(* The score the engine reports for the current arguments with the two     *)
(* authority flags set as given.                                           *)
ScoreWith(mintRevoked, freezeRevoked) ==
    calculateDynamicRiskScore(
        [analysis EXCEPT !.mintInfo = Some(MintInfo(mintRevoked, freezeRevoked))],
        Val(verificationResult), dexData, socialMediaData).riskScore

(* C1: the riskScore produced by calculateDynamicRiskScore is an integer   *)
(* in 0..100, however many adverse factors apply at once.                  *)
C1_ScoreInRange ==
    Scored => analysis.riskScore \in 0..100

(* C2: a call in which a step throws still resolves, with riskScore = 75   *)
(* and riskLevel = HIGH (never LOW); an exception is never left uncaught.  *)
C2_FailSafeVerdict ==
    /\ (pc = "failed") => (analysis.riskScore = 75 /\ analysis.riskLevel = "HIGH")
    /\ (thrownAt # "") => (pc = "failed")

(* The summary step throws for a token verified OFFICIAL that the scoring  *)
(* step had just assessed LOW with score 0.                                *)
C2_Witness ==
    /\ pc = "failed" /\ thrownAt = "summary"
    /\ Val(verificationResult).verificationLevel = "OFFICIAL"
    /\ analysis.riskFactors = <<"Technical analysis failed">>
    /\ Len(analysis.safetyFactors) > 0

(* C3: whenever analyzeToken returns through its fail-safe path, the       *)
(* riskFactors list is exactly the single entry "Technical analysis        *)
(* failed", at whichever step the failure occurred.                        *)
C3_SingleFailureFactor ==
    (pc = "failed") => analysis.riskFactors = <<"Technical analysis failed">>

(* C5: all else equal, the score with mintRevoked = true is never greater  *)
(* than with mintRevoked = false, and the score with freezeRevoked = false *)
(* is never smaller than with freezeRevoked = true.                        *)
C5_AuthorityMonotone ==
    (Scored /\ IsSome(analysis.mintInfo)) =>
        LET m == Val(analysis.mintInfo).mintRevoked
            f == Val(analysis.mintInfo).freezeRevoked
        IN  /\ analysis.riskScore = ScoreWith(m, f)
            /\ ScoreWith(TRUE, f) <= ScoreWith(FALSE, f)
            /\ ScoreWith(m, FALSE) >= ScoreWith(m, TRUE)

(* A scored token with an active mint authority and a revoked freeze       *)
(* authority whose score lies strictly between the scores of the two       *)
(* neighbouring flag settings.                                             *)
C5_Witness ==
    /\ Scored /\ IsSome(analysis.mintInfo)
    /\ ~Val(analysis.mintInfo).mintRevoked /\ Val(analysis.mintInfo).freezeRevoked
    /\ ScoreWith(TRUE, TRUE) < analysis.riskScore
    /\ analysis.riskScore < ScoreWith(FALSE, FALSE)

----------------------------------------------------------------------------
(* Properties of the verification service (SpecVerify) *)

(* What a fresh aggregation of a call's own inputs returns. *)
FreshResult(call) ==
    aggregateVerificationResults(
        call.tokenAddress,
        verificationChecks(call.tokenAddress, call.metadata, evidence[call.tokenAddress]),
        call.metadata)

(* C8: with the external evidence fixed, the result verifyToken returns is *)
(* a function of the call's own inputs: a result served from the cache     *)
(* equals what a fresh aggregation of that call's inputs would return.     *)
C8_CachedEqualsFresh ==
    IsSome(lastCall) => Val(lastCall).result = FreshResult(Val(lastCall))

----------------------------------------------------------------------------
(* Further properties of the aggregator (SpecAggregate) *)

(* C11: for a non-critical token, when at least one participating check    *)
(* matched with positive weight and every check that did not match carries *)
(* weight 0, the confidence is exactly 100, however many checks failed.    *)
C11_ConfidenceCollapses ==
    (/\ AggDone /\ ~AggCritical
     /\ \E i \in 1..Len(aggChecks) :
           Matched(aggChecks[i]) /\ Val(aggChecks[i].value).weight > 0
     /\ \A i \in 1..Len(aggChecks) :
           (Participated(aggChecks[i]) /\ ~Matched(aggChecks[i]))
               => Val(aggChecks[i].value).weight = 0)
    => Val(aggResult).confidence = 100

(* One matched source of weight 25 (the token registry) next to a source   *)
(* that found nothing and reports weight 0 (CoinGecko), and a rejected     *)
(* promise: confidence 100.                                                *)
C11_Witness ==
    /\ AggDone /\ aggTokenAddress = NEWMINT
    /\ aggChecks = << Fulfilled(checkSolanaTokenRegistry(TRUE)),
                      Fulfilled(checkCoinGeckoListing(Null)),
                      Rejected >>
    /\ Val(aggChecks[1].value).weight = 25
    /\ Val(aggResult).confidence = 100

----------------------------------------------------------------------------
(* Further properties of the risk scoring engine (SpecScore, SpecAnalyze) *)

Unverified == IsSome(verificationResult) /\ ~Val(verificationResult).isVerified
VerifiedAt(level) ==
    /\ IsSome(verificationResult) /\ Val(verificationResult).isVerified
    /\ Val(verificationResult).verificationLevel = level

(* The band of a reported score under the thresholds of unverified tokens. *)
UnverifiedBand(riskScore) ==
    IF riskScore >= 80 THEN "CRITICAL"
    ELSE IF riskScore >= 60 THEN "HIGH"
    ELSE IF riskScore >= 40 THEN "MEDIUM"
    ELSE "LOW"

(* C12: for every unverified token the reported riskLevel is the band of   *)
(* the reported riskScore: >= 80 CRITICAL, 60..79 HIGH, 40..59 MEDIUM,     *)
(* below 40 LOW.                                                           *)
C12_UnverifiedBands ==
    (Scored /\ Unverified) => analysis.riskLevel = UnverifiedBand(analysis.riskScore)

(* C13: a token verified at OFFICIAL level is assessed MEDIUM exactly when *)
(* its score is >= 25 and LOW otherwise, never HIGH or CRITICAL, whatever  *)
(* the context and the DEX data are.                                       *)
C13_OfficialBands ==
    (Scored /\ VerifiedAt("OFFICIAL")) =>
        analysis.riskLevel = (IF analysis.riskScore >= 25 THEN "MEDIUM" ELSE "LOW")

(* An OFFICIAL token with a detected rug pull, liquidity under $10k and a  *)
(* suspicious volume-to-liquidity pattern together, both authorities       *)
(* active: score 25, MEDIUM.                                               *)
C13_Witness ==
    /\ Scored /\ VerifiedAt("OFFICIAL")
    /\ dexData = Some(DexRugged)
    /\ analysis.mintInfo = Some(MintInfo(FALSE, FALSE))
    /\ analysis.riskScore = 25 /\ analysis.riskLevel = "MEDIUM"

Returned == pc = "returned"

(* C14: a completed analysis of a whitelisted critical-infrastructure      *)
(* token (whitelistInfo.riskOverride = LOW) never reports a risk level     *)
(* above LOW, whatever authority, transaction and DEX data were collected. *)
C14_WhitelistedStaysLow ==
    (/\ Returned
     /\ analysis.tokenAddress \in DOMAIN criticalTokens
     /\ IsSome(analysis.whitelistInfo)
     /\ Val(analysis.whitelistInfo).riskOverride = "LOW")
    => analysis.riskLevel = "LOW"

(* The heuristic flag of the current arguments. *)
HeuristicFlag ==
    isRecentlyLaunchedLegitimateToken(analysis, Val(verificationResult),
                                      dexData, socialMediaData)

(* Scenario B: both authorities active, half a day old, two transfers. *)
ScenarioB ==
    /\ analysis.mintInfo = Some(MintInfo(FALSE, FALSE))
    /\ analysis.transactionData = Some(TransactionAnalysis(5, 2))

(* C15: for every unverified result (any confidence in 0..100) with the    *)
(* heuristic flag false and a context with mintRevoked = false,            *)
(* freezeRevoked = false, daysActive = 0.5 and totalTransfers = 2, the     *)
(* score is >= 60 and the level is HIGH or CRITICAL.                       *)
C15_ScenarioB ==
    (Scored /\ Unverified /\ ScenarioB /\ ~HeuristicFlag) =>
        /\ analysis.riskScore >= 60
        /\ analysis.riskLevel \in {"HIGH", "CRITICAL"}
        /\ \A confidence \in 0..100 :
              LET r == calculateDynamicRiskScore(
                           analysis,
                           [Val(verificationResult) EXCEPT !.confidence = confidence],
                           dexData, socialMediaData)
              IN  r.riskScore >= 60 /\ r.riskLevel \in {"HIGH", "CRITICAL"}

(* Scenario B with nothing else collected and the smallest unverified      *)
(* baseline (confidence 100): 10 + 30 + 25 + 20 + 15 = 100, CRITICAL.      *)
C15_Witness ==
    /\ Scored /\ Unverified /\ ScenarioB /\ ~HeuristicFlag
    /\ Val(verificationResult).confidence = 100
    /\ analysis.tokenInfo = Null /\ analysis.creatorData = Null /\ dexData = Null
    /\ analysis.riskScore = 100 /\ analysis.riskLevel = "CRITICAL"

CountedSignals == totalSignals(Signals(analysis, dexData, socialMediaData))
PositiveSignals == positiveSignals(Signals(analysis, dexData, socialMediaData))

ScoreArgument ==
    Accumulate(analysis, Val(verificationResult), dexData, HeuristicFlag).totalScore

VerifiedLines ==
    << "VERIFIED: " \o Val(verificationResult).verificationLevel \o " verification level",
       "Verified on: " \o join(Val(verificationResult).sources, ", ") >>
    \o (IF ScoreArgument > 200
        THEN <<"Note: Despite verification, some risk factors remain">> ELSE <<>>)

FlaggedBand ==
    IF ScoreArgument >= 600 THEN "HIGH RISK: Exercise caution despite positive signals"
    ELSE IF ScoreArgument >= 400 THEN "MODERATE RISK: Monitor closely for red flags"
    ELSE "LOW RISK: Promising new token - continue monitoring"

PlainBand ==
    IF ScoreArgument >= 800 THEN "EXTREME RISK: Avoid this token completely"
    ELSE IF ScoreArgument >= 600 THEN "HIGH RISK: Exercise extreme caution"
    ELSE "UNVERIFIED: Token lacks verification but may be legitimate"

(* C17 as stated: the recommendations are a lookup on (score, verification,*)
(* heuristic flag); verified: level line, sources line, caution note iff   *)
(* score > 20; unverified with the flag: the framing, a monitoring tip, a  *)
(* wait-for-verification tip, one banded message (>= 60, 40-59, below 40)  *)
(* and nothing else; unverified without the flag: one message (>= 80,      *)
(* 60-79, below 60).                                                       *)
C17_RecommendationLookup ==
    Scored =>
        IF ~Unverified THEN analysis.recommendations = VerifiedLines
        ELSE IF HeuristicFlag
        THEN /\ Len(analysis.recommendations) = 4
             /\ {analysis.recommendations[i] : i \in 1..Len(analysis.recommendations)}
                  = { "RECENTLY LAUNCHED: Token shows positive signals",
                      "Monitor for verification on major platforms",
                      "Tip: Wait for verification before major investments",
                      FlaggedBand }
        ELSE analysis.recommendations = <<PlainBand>>

(* C17 amended: as stated, except that an unverified token with the flag   *)
(* gets five entries: the framing, the monitoring tip, a tip to check for  *)
(* ongoing development and community activity, the banded message and the  *)
(* wait-for-verification tip.                                              *)
C17_RecommendationLookupAmended ==
    Scored =>
        IF ~Unverified THEN analysis.recommendations = VerifiedLines
        ELSE IF HeuristicFlag
        THEN analysis.recommendations =
                 << "RECENTLY LAUNCHED: Token shows positive signals",
                    "Monitor for verification on major platforms",
                    "Check for ongoing development and community activity",
                    FlaggedBand,
                    "Tip: Wait for verification before major investments" >>
        ELSE analysis.recommendations = <<PlainBand>>

(* An unverified token with the flag and a score in the 40-59 band. *)
C17_Witness ==
    /\ Scored /\ Unverified /\ HeuristicFlag
    /\ ScoreArgument >= 400 /\ ScoreArgument < 600
    /\ Len(analysis.recommendations) = 5
    /\ analysis.recommendations[4] = "MODERATE RISK: Monitor closely for red flags"

----------------------------------------------------------------------------
(* The entries each factor of the engine can emit, and what each risk      *)
(* entry adds to the total (in tenths), stated apart from the engine.      *)

Entries(list) == {list[i] : i \in 1..Len(list)}

MintRiskEntries ==
    { "Active mint authority (but token is verified)",
      "Active mint authority (recently launched - monitoring)",
      "Active mint authority - unlimited supply possible" }
FreezeRiskEntries ==
    { "Active freeze authority (but token is verified)",
      "Active freeze authority (recently launched - monitoring)",
      "Active freeze authority - accounts can be frozen" }
AuthoritySafetyEntries ==
    { "Mint authority revoked - supply is fixed",
      "Freeze authority revoked - accounts protected" }
VeryNewEntries ==
    {"Very new token (recently launched - monitoring)", "Very new token - high risk"}
NewEntries ==
    {"New token (recently launched - monitoring)", "New token - moderate risk"}
LowVolumeEntries ==
    { "Low transaction volume (recently launched - monitoring)",
      "Low transaction volume - suspicious" }
TransactionSafetyEntries ==
    {"Established token - lower risk", "High transaction volume - active trading"}
CreatorRiskEntries ==
    { "Suspicious creator behavior (recently launched - monitoring)",
      "Suspicious creator behavior detected" }
CreatorSafetyEntries == {"Normal creator behavior patterns"}
MetadataRiskEntries ==
    {"Poor metadata quality (recently launched - monitoring)", "Poor metadata quality"}
MetadataSafetyEntries == {"Good metadata quality"}

DexRecords == {Val(d) : d \in ScoreDex \ {Null}}
RugPullEntries ==
    { "Rug pull risk detected (" \o ToString(d.rugPullRisk.confidence) \o "% confidence)" :
        d \in DexRecords }
IndicatorEntries ==
    UNION { {"DEX: " \o d.rugPullRisk.indicators[i] : i \in 1..Len(d.rugPullRisk.indicators)} :
             d \in DexRecords }
PatternRecords ==
    {Val(d.volumeLiquidityAnalysis) : d \in {x \in DexRecords : IsSome(x.volumeLiquidityAnalysis)}}
SuspiciousEntries ==
    {"Suspicious volume-to-liquidity pattern: " \o v.explanation : v \in PatternRecords}
RatioEntries ==
    { "Volume-to-liquidity ratio: " \o toFixed2(v.ratio) \o "x (" \o v.context \o ")" :
        v \in PatternRecords }
DexRiskEntries ==
    RugPullEntries \cup IndicatorEntries \cup SuspiciousEntries \cup RatioEntries
    \cup {"Very low liquidity (< $10k)", "Low liquidity (< $50k)",
          "High volume relative to liquidity"}

BaselineRiskEntries ==
    { "Token not verified on major platforms",
      "Token not verified on major platforms (recently launched)" }

ContextRiskEntries ==
    MintRiskEntries \cup FreezeRiskEntries \cup VeryNewEntries \cup NewEntries
    \cup LowVolumeEntries \cup CreatorRiskEntries \cup MetadataRiskEntries
ContextSafetyEntries ==
    AuthoritySafetyEntries \cup TransactionSafetyEntries \cup CreatorSafetyEntries
    \cup MetadataSafetyEntries

(* What one entry of riskFactors adds: p[1] for a verified token, p[2] for *)
(* an unverified one with the heuristic flag, p[3] otherwise.              *)
PriceOf(p) ==
    IF ~Unverified THEN p[1] ELSE IF HeuristicFlag THEN p[2] ELSE p[3]

Price(entry) ==
    LET confidence == Val(verificationResult).confidence IN
    IF entry \in BaselineRiskEntries
    THEN PriceOf(<<0, Max(50, 150 - confidence), Max(100, 300 - 2 * confidence)>>)
    ELSE IF entry \in MintRiskEntries THEN PriceOf(<<60, 150, 300>>)
    ELSE IF entry \in FreezeRiskEntries THEN PriceOf(<<50, 125, 250>>)
    ELSE IF entry \in VeryNewEntries THEN PriceOf(<<60, 80, 200>>)
    ELSE IF entry \in NewEntries THEN PriceOf(<<28, 70, 140>>)
    ELSE IF entry \in LowVolumeEntries THEN PriceOf(<<45, 60, 150>>)
    ELSE IF entry \in CreatorRiskEntries THEN PriceOf(<<45, 75, 150>>)
    ELSE IF entry \in MetadataRiskEntries THEN PriceOf(<<20, 50, 100>>)
    ELSE IF entry \in RugPullEntries THEN PriceOf(<<75, 250, 250>>)
    ELSE IF entry = "Very low liquidity (< $10k)" THEN PriceOf(<<100, 200, 200>>)
    ELSE IF entry = "Low liquidity (< $50k)" THEN PriceOf(<<50, 125, 125>>)
    ELSE IF entry \in SuspiciousEntries THEN PriceOf(<<75, 200, 200>>)
    ELSE IF entry = "High volume relative to liquidity" THEN PriceOf(<<50, 150, 150>>)
    ELSE 0

PricedTotal ==
    SeqSum([i \in 1..Len(analysis.riskFactors) |-> Price(analysis.riskFactors[i])])

(* C18: a context field missing at the scoring step (mintInfo,             *)
(* transactionData, creatorData, tokenInfo, dexData) makes every factor    *)
(* that depends on it add exactly 0 and emit no entry in riskFactors and   *)
(* none in safetyFactors: the total is the sum of what the listed entries  *)
(* add, and no entry of a missing field is listed.                         *)
C18_MissingFieldsAddNothing ==
    Scored =>
        LET risks == Entries(analysis.riskFactors)
            safeties == Entries(analysis.safetyFactors)
        IN  /\ risks \subseteq
                  (BaselineRiskEntries \cup ContextRiskEntries \cup DexRiskEntries)
            /\ ScoreArgument = PricedTotal
            /\ analysis.mintInfo = Null =>
                  /\ risks \cap (MintRiskEntries \cup FreezeRiskEntries) = {}
                  /\ safeties \cap AuthoritySafetyEntries = {}
            /\ analysis.transactionData = Null =>
                  /\ risks \cap (VeryNewEntries \cup NewEntries \cup LowVolumeEntries) = {}
                  /\ safeties \cap TransactionSafetyEntries = {}
            /\ analysis.creatorData = Null =>
                  /\ risks \cap CreatorRiskEntries = {}
                  /\ safeties \cap CreatorSafetyEntries = {}
            /\ analysis.tokenInfo = Null =>
                  /\ risks \cap MetadataRiskEntries = {}
                  /\ safeties \cap MetadataSafetyEntries = {}
            /\ dexData = Null =>
                  /\ risks \subseteq (BaselineRiskEntries \cup ContextRiskEntries)
                  /\ \A e \in safeties \ ContextSafetyEntries :
                        \E i \in 1..Len(BaselineStep(ScoreStart, Val(verificationResult),
                                                      HeuristicFlag).safetyFactors) :
                           e = BaselineStep(ScoreStart, Val(verificationResult),
                                            HeuristicFlag).safetyFactors[i]

(* An unverified token for which nothing at all was collected: the only    *)
(* entry is the verification baseline, 30 points.                          *)
C18_Witness ==
    /\ Scored /\ Unverified /\ Val(verificationResult).confidence = 0
    /\ analysis.mintInfo = Null /\ analysis.transactionData = Null
    /\ analysis.creatorData = Null /\ analysis.tokenInfo = Null /\ dexData = Null
    /\ analysis.riskFactors = <<"Token not verified on major platforms">>
    /\ analysis.safetyFactors = <<>>
    /\ analysis.riskScore = 30

(* The transaction-history collector failed or found nothing: only then   *)
(* is totalTransactions 0.                                                 *)
NoTransactionHistory ==
    /\ IsSome(analysis.transactionData)
    /\ Val(analysis.transactionData).totalTransactions = 0

(* C19: when the transaction-history collector fails or finds no           *)
(* transactions during analyzeToken, the token-age and transfer-volume     *)
(* factors add nothing to the score and emit no riskFactors entry.         *)
C19_FailedHistoryIsMissingData ==
    (pc \in {"dexIntegration", "summary", "returned"} /\ NoTransactionHistory) =>
        Entries(analysis.riskFactors)
            \cap (VeryNewEntries \cup NewEntries \cup LowVolumeEntries) = {}

(* C20: for a token verified at OFFICIAL level the mint-authority,         *)
(* freeze-authority, token-age, transfer-volume, creator-behaviour and     *)
(* metadata-quality checks are skipped: whatever the context, they add     *)
(* nothing to the score and emit no riskFactors and no safetyFactors       *)
(* entry; only the verification entries and the DEX checks contribute.     *)
C20_OfficialSkipsContext ==
    (Scored /\ VerifiedAt("OFFICIAL")) =>
        LET ver == Val(verificationResult)
            verificationEntries ==
                (<<"Dynamically verified: OFFICIAL (" \o ToString(ver.confidence)
                   \o "% confidence)">>
                 \o [i \in 1..Len(ver.sources) |-> "Listed on " \o ver.sources[i]])
                \o <<"Official verification - maximum trust level">>
            n == Len(verificationEntries)
        IN  /\ Entries(analysis.riskFactors) \cap ContextRiskEntries = {}
            /\ Entries(analysis.safetyFactors) \cap ContextSafetyEntries = {}
            /\ Entries(analysis.riskFactors) \subseteq DexRiskEntries
            /\ ScoreArgument = PricedTotal
            /\ Len(analysis.safetyFactors) >= n
            /\ SubSeq(analysis.safetyFactors, 1, n) = verificationEntries
            /\ dexData = Null =>
                  /\ analysis.riskScore = 0 /\ analysis.riskFactors = <<>>
                  /\ analysis.safetyFactors = verificationEntries

(* An OFFICIAL token whose context would trip every skipped check: both    *)
(* authorities active, zero days old, two transfers, a creator rated HIGH  *)
(* and the fallback name "Unknown"; nothing from the DEX.                  *)
C20_Witness ==
    /\ Scored /\ VerifiedAt("OFFICIAL")
    /\ analysis.mintInfo = Some(MintInfo(FALSE, FALSE))
    /\ analysis.transactionData = Some(TransactionAnalysis(0, 2))
    /\ analysis.creatorData = Some(CreatorAnalysis("HIGH"))
    /\ analysis.tokenInfo = Some(MdFallback)
    /\ dexData = Null
    /\ analysis.riskScore = 0 /\ analysis.riskFactors = <<>>
    /\ Len(analysis.safetyFactors) = 3

----------------------------------------------------------------------------
(* Properties relating the assessments of one context under different      *)
(* verification results (SpecScore)                                        *)

(* What the k-th context factor (mint authority, freeze authority, token   *)
(* age, transaction volume, creator behaviour, metadata quality) adds for  *)
(* the context of the current state under a verification result and a      *)
(* heuristic flag, in tenths.                                              *)
FactorCharge(k, ver, flag) ==
    CASE k = 1 -> MintAuthorityStep(ScoreStart, analysis, ver, flag).totalScore
      [] k = 2 -> FreezeAuthorityStep(ScoreStart, analysis, ver, flag).totalScore
      [] k = 3 -> TokenAgeStep(ScoreStart, analysis, ver, flag).totalScore
      [] k = 4 -> TransactionVolumeStep(ScoreStart, analysis, ver, flag).totalScore
      [] k = 5 -> CreatorStep(ScoreStart, analysis, ver, flag).totalScore
      [] k = 6 -> MetadataStep(ScoreStart, analysis, ver, flag).totalScore

AsCommunity == VerificationResultOf("COMMUNITY", 100, <<"Solana Token Registry">>)
AsEstablished == VerificationResultOf("ESTABLISHED", 100, <<"CoinGecko">>)
AsUnverified == VerificationResultOf("UNVERIFIED", 0, <<>>)

(* C21: for each of the authority, age, volume, creator and metadata       *)
(* factors and the same adverse condition, an ESTABLISHED token is charged *)
(* strictly less than a COMMUNITY token, a verified token less than a      *)
(* heuristically legitimate unverified one, and that one less than an      *)
(* unverified token without the flag.                                      *)
C21_SteeperDiscountByLevel ==
    Scored =>
        \A k \in 1..6 :
            FactorCharge(k, AsUnverified, FALSE) > 0 =>
                /\ FactorCharge(k, AsEstablished, FALSE) < FactorCharge(k, AsCommunity, FALSE)
                /\ FactorCharge(k, AsCommunity, FALSE) < FactorCharge(k, AsUnverified, TRUE)
                /\ FactorCharge(k, AsUnverified, TRUE) < FactorCharge(k, AsUnverified, FALSE)

(* C21 as amended: an ESTABLISHED token is charged exactly what a          *)
(* COMMUNITY token is charged (the code has one multiplier for every       *)
(* verified token below OFFICIAL), a verified token strictly less than a   *)
(* heuristically legitimate unverified one, and that one strictly less     *)
(* than an unverified token without the flag.                              *)
C21_OneDiscountForVerified ==
    Scored =>
        \A k \in 1..6 :
            FactorCharge(k, AsUnverified, FALSE) > 0 =>
                /\ FactorCharge(k, AsEstablished, FALSE) = FactorCharge(k, AsCommunity, FALSE)
                /\ FactorCharge(k, AsCommunity, FALSE) < FactorCharge(k, AsUnverified, TRUE)
                /\ FactorCharge(k, AsUnverified, TRUE) < FactorCharge(k, AsUnverified, FALSE)

(* An ESTABLISHED token was assessed in a context where all six factors    *)
(* are adverse.                                                            *)
C21_Witness ==
    /\ Scored /\ VerifiedAt("ESTABLISHED")
    /\ \A k \in 1..6 : FactorCharge(k, Val(verificationResult), FALSE) > 0

----------------------------------------------------------------------------
(* Properties of the heuristic classifier's signal count (SpecScore)       *)

(* Whether the data of each of the eleven signals is available in the      *)
(* context of the current state: the transaction data (1, 2), the token    *)
(* info (3), the liquidity figure (4), the token name (5), the creator     *)
(* data (6), the volume figure (7), the rug pull assessment (8) and the    *)
(* social media data (9, 10, 11).                                          *)
DataAvailable ==
    LET tx == IsSome(analysis.transactionData)
        info == IsSome(analysis.tokenInfo)
        named == info /\ Val(analysis.tokenInfo).name # <<>>
        dex == IsSome(dexData)
        social == IsSome(socialMediaData)
    IN  <<tx, tx, info, dex, named, IsSome(analysis.creatorData), dex, dex,
          social, social, social>>

(* C22: each of the eleven signals is counted in totalSignals exactly when *)
(* its underlying data is available in the context, whether it turns out   *)
(* positive or negative.                                                   *)
C22_CountedIffDataAvailable ==
    Scored =>
        \A i \in 1..11 :
            Signals(analysis, dexData, socialMediaData)[i][1] <=> DataAvailable[i]

----------------------------------------------------------------------------
(* Properties of the entries of riskFactors (SpecScore)                    *)

(* The entries each check of the engine can emit into riskFactors: the     *)
(* verification baseline, the six context checks, and the rug pull, the    *)
(* liquidity and the volume-to-liquidity checks of the DEX section.        *)
RiskChecks ==
    { BaselineRiskEntries, MintRiskEntries, FreezeRiskEntries,
      VeryNewEntries \cup NewEntries, LowVolumeEntries, CreatorRiskEntries,
      MetadataRiskEntries,
      RugPullEntries \cup IndicatorEntries,
      {"Very low liquidity (< $10k)", "Low liquidity (< $50k)"},
      SuspiciousEntries \cup RatioEntries \cup {"High volume relative to liquidity"} }

EmittedBy(check) == {i \in 1..Len(analysis.riskFactors) : analysis.riskFactors[i] \in check}

(* C23: each check emits at most one riskFactors entry, and emits one only *)
(* when it added a positive amount to the score; no entry is emitted by a  *)
(* check that added nothing.                                               *)
C23_OneEntryPerContribution ==
    Scored =>
        /\ \A check \in RiskChecks : Cardinality(EmittedBy(check)) <= 1
        /\ \A i \in 1..Len(analysis.riskFactors) : Price(analysis.riskFactors[i]) > 0

----------------------------------------------------------------------------
(* Properties of the verification baseline (SpecScore)                     *)

(* The baseline penalty, in tenths, of the unverified result of the        *)
(* current state had its confidence been c.                                *)
UnverifiedPenalty(c, flag) ==
    BaselineStep(ScoreStart, [Val(verificationResult) EXCEPT !.confidence = c],
                 flag).totalScore

(* C24: for an unverified token the baseline penalty of a token carrying   *)
(* the heuristic flag is not greater than that of an unflagged token at    *)
(* the same confidence, for every confidence of 0..100; the flagged        *)
(* penalty is never below 5 and the unflagged one never below 10, so every *)
(* unverified token has a score of at least 5.                             *)
C24_BaselineFloors ==
    (Scored /\ Unverified) =>
        /\ \A c \in 0..100 :
              /\ UnverifiedPenalty(c, TRUE) <= UnverifiedPenalty(c, FALSE)
              /\ UnverifiedPenalty(c, TRUE) >= Tenths(5)
              /\ UnverifiedPenalty(c, FALSE) >= Tenths(10)
        /\ ScoreArgument >= UnverifiedPenalty(Val(verificationResult).confidence,
                                              HeuristicFlag)
        /\ analysis.riskScore >= 5

(* A flagged unverified token of confidence 100 with nothing adverse in    *)
(* its context: the score is the floor of 5.                               *)
C24_Witness ==
    /\ Scored /\ Unverified /\ HeuristicFlag
    /\ Val(verificationResult).confidence = 100
    /\ analysis.riskScore = 5

----------------------------------------------------------------------------
(* Properties comparing verification classes on one context (SpecScore)    *)

ClassRank == [UNVERIFIED |-> 0, COMMUNITY |-> 1, ESTABLISHED |-> 2, OFFICIAL |-> 3]
LevelRank == [LOW |-> 0, MEDIUM |-> 1, HIGH |-> 2, CRITICAL |-> 3]

(* The unrounded total, in tenths, and the level the engine computes for   *)
(* the context of the current state under the verification result ver.     *)
TotalUnder(ver) ==
    Accumulate(analysis, ver, dexData,
               isRecentlyLaunchedLegitimateToken(analysis, ver, dexData,
                                                 socialMediaData)).totalScore
LevelUnder(ver) == RiskLevelFor(TotalUnder(ver), ver)

(* C25: holding the context equal, a token of a higher verification class  *)
(* (UNVERIFIED < COMMUNITY < ESTABLISHED < OFFICIAL) never receives a      *)
(* higher risk level than the token assessed in the current state.         *)
C25_LevelMonotoneInClass ==
    Scored =>
        \A higher \in ScoreVerifications :
            ClassRank[higher.verificationLevel]
                > ClassRank[Val(verificationResult).verificationLevel]
            => LevelRank[LevelUnder(higher)] <= LevelRank[analysis.riskLevel]

(* The verification result of the current state had its confidence been   *)
(* c, and the confidences the computation is repeated for.                 *)
WithConfidence(c) == [Val(verificationResult) EXCEPT !.confidence = c]
ConfidenceSamples == {0, 25, 50, 75, 100}

(* C26: holding the context and the heuristic inputs equal, the score     *)
(* computed with a verified result is never greater than the score         *)
(* computed with an unverified result, and for a verified token the score  *)
(* does not depend on the confidence of the verification result.           *)
C26_VerifiedNeverScoredHigher ==
    Scored =>
        /\ Unverified =>
              \A ver \in ScoreVerifications :
                  ver.isVerified => ReportedScore(TotalUnder(ver)) <= analysis.riskScore
        /\ ~Unverified =>
              \A c \in ConfidenceSamples :
                  ReportedScore(TotalUnder(WithConfidence(c))) = analysis.riskScore

(* A COMMUNITY token of confidence 40 was assessed with a score of 25 or   *)
(* more.                                                                   *)
C26_Witness ==
    /\ Scored /\ VerifiedAt("COMMUNITY")
    /\ Val(verificationResult).confidence = 40
    /\ analysis.riskScore >= 25

----------------------------------------------------------------------------
(* Properties of the recommendations of a verified token (SpecScore)       *)

CautionNote == "Note: Despite verification, some risk factors remain"

(* C29: whenever a verified token is assessed as MEDIUM or HIGH its        *)
(* recommendations include the caution note, and a verified token assessed *)
(* as LOW with a score of at most 20 gets no caution note.                 *)
C29_CautionNoteFollowsLevel ==
    (Scored /\ ~Unverified) =>
        /\ analysis.riskLevel \in {"MEDIUM", "HIGH"} =>
              CautionNote \in Entries(analysis.recommendations)
        /\ (analysis.riskLevel = "LOW" /\ analysis.riskScore <= 20) =>
              CautionNote \notin Entries(analysis.recommendations)

----------------------------------------------------------------------------
(* Properties of clearCache (SpecVerify)                                   *)

(* C30: clearCache(tokenAddress) removes exactly that address's entry: the *)
(* other addresses' entries are unchanged and, while younger than 30       *)
(* minutes, still served without recomputation, and the next verifyToken   *)
(* for the cleared address recomputes the result and caches it again;      *)
(* clearCache() empties the whole cache.                                   *)
C30_ClearCacheIsolated ==
    [][ /\ \A a \in ServiceAddresses :
              ClearCache(Some(a)) =>
                  /\ cache'[a] = Null
                  /\ \A b \in TokenAddresses \ {a} :
                        /\ cache'[b] = cache[b]
                        /\ \A m \in ServiceMetadata :
                              CacheHit(cache, b, now) =>
                                  LET call == verifyToken(cache', b, m, evidence', now') IN
                                  /\ call.cached
                                  /\ call.result = Val(cache[b]).result
                                  /\ call.cache = cache'
                  /\ \A m \in ServiceMetadata :
                        LET call == verifyToken(cache', a, m, evidence', now')
                            fresh == aggregateVerificationResults(
                                         a, verificationChecks(a, m, evidence'[a]), m)
                        IN  /\ ~call.cached
                            /\ call.result = fresh
                            /\ call.cache[a] = Some([result |-> fresh, timestamp |-> now'])
        /\ ClearCache(Null) => \A b \in TokenAddresses : cache'[b] = Null
      ]_vars

(* The last call verified NEWMINT, whose entry has since been cleared,     *)
(* while the entry of JUP is still cached and served.                      *)
C30_Witness ==
    /\ IsSome(lastCall) /\ Val(lastCall).tokenAddress = NEWMINT
    /\ cache[NEWMINT] = Null
    /\ CacheHit(cache, JUP, now)

----------------------------------------------------------------------------
(* Properties of the connection monitor (SpecSubscribe, SpecConnect)       *)

(* C27: after any sequence of subscribe and unsubscribe events on one      *)
(* socket, the socket is joined to at most MAX_SUBSCRIPTIONS_PER_SOCKET    *)
(* (10) analysis rooms.                                                    *)
C27_RoomsWithinLimit ==
    \A s \in SocketIds : Cardinality(rooms[s]) <= MAX_SUBSCRIPTIONS_PER_SOCKET

(* C28: the tracked connections sharing one IP address never exceed        *)
(* MAX_CONNECTIONS_PER_IP (5), and addConnection for an address that       *)
(* already has 5 tracked connections returns false and leaves the table    *)
(* unchanged.                                                              *)
C28_ConnectionsPerIPWithinLimit ==
    /\ [](\A ip \in ClientIPs :
            Cardinality(getConnectionsByIP(connections, ip)) <= MAX_CONNECTIONS_PER_IP)
    /\ [][\A s \in SocketIds :
            (/\ Admit(s, FALSE)
             /\ Cardinality(getConnectionsByIP(connections, HandshakeAddress(s)))
                    = MAX_CONNECTIONS_PER_IP)
            => /\ ~addConnection(connections, s, HandshakeAddress(s), now).allowed
               /\ connections' = connections
               /\ socketState'[s] = "closed"]_vars

(* A sixth socket of one address was turned away while five were tracked. *)
C28_Witness ==
    /\ Cardinality(getConnectionsByIP(connections, HandshakeAddress(1)))
           = MAX_CONNECTIONS_PER_IP
    /\ \E s \in SocketIds :
          /\ HandshakeAddress(s) = HandshakeAddress(1)
          /\ socketState[s] = "closed" /\ connections[s] = Null
          /\ \A other \in SocketIds \ {s} :
                HandshakeAddress(other) = HandshakeAddress(1)
                => IsSome(connections[other]) /\ socketState[other] = "open"

=============================================================================
